---------------------------- MODULE Spec2Model ----------------------------
(***************************************************************************)
(* Model of devicegen's DeviceGenerator (src/devicegen/device_gen.py): the  *)
(* identity tracker that keeps named regions, their lineages through        *)
(* extruded layers, dot columns and metadata, on top of the gmsh engine.    *)
(*                                                                         *)
(* The gmsh engine is modelled by what the tracker reads from it: the 2D    *)
(* entities of the mask plane (each a set of atomic cells of the plane, so  *)
(* that a Boolean fragment is the partition by covering surfaces), the      *)
(* volumes with their boundary surfaces, and the physical groups.           *)
(*                                                                         *)
(* Every method is an operator from a state record to a state record; a     *)
(* raised Python exception is the field exc of the result, and the state    *)
(* it carries is the state at the raise.                                    *)
(***************************************************************************)
EXTENDS Integers, Sequences, FiniteSets, TLC

\* ------------------------------------------------------------------ bounds
\* Atomic cells of the mask plane.
NCells == 3
\* Side surfaces the engine makes per extruded surface.
NSides == 1
\* new_layer calls in one behaviour.
MaxLayers == 2
\* Dots tracked in one behaviour.
MaxDots == 2
\* Calls of the labelling operations in one behaviour.
MaxLabelOps == 2
\* Direct calls of setup_top_layer in one behaviour.
MaxSetups == 2
\* Elements in a mask file.
MaxElems == 2

Cells == 1..NCells

\* Python's None, for the optional string arguments.
None == "None"
\* No exception raised.
NoExc == "none"

\* ----------------------------------------------------------- list helpers
Surf(t) == <<2, t>>
Volm(t) == <<3, t>>

Range(seq) == {seq[i] : i \in 1..Len(seq)}

\* list.index: the first position of x, 0 when x is absent (Python raises).
Index(seq, x) ==
    IF \E i \in 1..Len(seq) : seq[i] = x
    THEN CHOOSE i \in 1..Len(seq) : seq[i] = x /\ \A j \in 1..(i-1) : seq[j] # x
    ELSE 0

\* list.remove: drops the first occurrence of x.
ListRemove(seq, x) ==
    LET i == Index(seq, x)
    IN  IF i = 0 THEN seq ELSE SubSeq(seq, 1, i-1) \o SubSeq(seq, i+1, Len(seq))

RECURSIVE Flatten(_)
Flatten(ll) == IF ll = <<>> THEN <<>> ELSE Head(ll) \o Flatten(Tail(ll))

SetMax(S) == IF S = {} THEN 0 ELSE CHOOSE m \in S : \A x \in S : x <= m
SetMin(S) == CHOOSE m \in S : \A x \in S : m <= x

RECURSIVE SortedSeq(_)
SortedSeq(S) == IF S = {} THEN <<>> ELSE <<SetMin(S)>> \o SortedSeq(S \ {SetMin(S)})

Digits == <<"0", "1", "2", "3", "4", "5", "6", "7", "8", "9">>

\* str(n) of an f-string.
RECURSIVE ToStr(_)
ToStr(n) == IF n < 10 THEN Digits[n + 1] ELSE ToStr(n \div 10) \o Digits[(n % 10) + 1]

\* ----------------------------------------------------------- dict helpers
\* A Python dict: the sequence of its items in insertion order.
DictKeys(d) == [i \in 1..Len(d) |-> d[i].k]
DictHas(d, key) == \E i \in 1..Len(d) : d[i].k = key
DictGet(d, key) == d[CHOOSE i \in 1..Len(d) : d[i].k = key].v
DictSet(d, key, val) ==
    IF DictHas(d, key)
    THEN [i \in 1..Len(d) |-> IF d[i].k = key THEN [k |-> key, v |-> val] ELSE d[i]]
    ELSE Append(d, [k |-> key, v |-> val])
DictPop(d, key) == SelectSeq(d, LAMBDA it : it.k # key)
\* dict equality: the same items, in any order.
DictEq(d, e) == Range(d) = Range(e)


\* ------------------------------------------------------------ gmsh engine
\* gmsh.model.getEntities(2): the surfaces, by tag.
getEntities2(s) == [i \in 1..Cardinality(DOMAIN s.entities) |->
                       Surf(SortedSeq(DOMAIN s.entities)[i])]

\* gmsh.model.getPhysicalGroups(dim): the groups of a dimension, by tag.
getPhysicalGroups(s, dim) ==
    LET gs == SelectSeq(s.phys, LAMBDA g : g.dim = dim)
    IN  [i \in 1..Len(gs) |-> <<dim, gs[i].tag>>]

PhysGroup(s, dim, ptag) ==
    s.phys[CHOOSE i \in 1..Len(s.phys) : s.phys[i].dim = dim /\ s.phys[i].tag = ptag]

\* gmsh.model.getPhysicalName: "" for a group without a name.
getPhysicalName(s, dim, ptag) == PhysGroup(s, dim, ptag).name

getEntitiesForPhysicalGroup(s, dim, ptag) == PhysGroup(s, dim, ptag).ents

\* gmsh.model.getPhysicalGroupsForEntity: the tags of the groups holding the entity.
getPhysicalGroupsForEntity(s, dim, tag) ==
    LET gs == SelectSeq(s.phys, LAMBDA g : g.dim = dim /\ tag \in Range(g.ents))
    IN  [i \in 1..Len(gs) |-> gs[i].tag]

\* The tag addPhysicalGroup(dim, ents, tag=-1) returns: one past the largest in use.
NewPhysTag(s, dim) ==
    SetMax({s.phys[i].tag : i \in {j \in 1..Len(s.phys) : s.phys[j].dim = dim}}) + 1

addPhysicalGroup(s, dim, ents) ==
    [s EXCEPT !.phys = Append(@, [dim |-> dim, tag |-> NewPhysTag(s, dim),
                                  ents |-> ents, name |-> ""])]

\* gmsh.model.setPhysicalName(dim, tag, name): the group of that dimension and
\* tag carries the name (as the API documents it: names are per group).
setPhysicalName(s, dim, ptag, name) ==
    [s EXCEPT !.phys = [i \in 1..Len(@) |->
        IF @[i].dim = dim /\ @[i].tag = ptag THEN [@[i] EXCEPT !.name = name] ELSE @[i]]]

\* gmsh.model.removePhysicalGroups(dimTags): the groups go, and their names with them.
\* An empty dimTags removes every group of every dimension.
removePhysicalGroups(s, dimTags) ==
    IF dimTags = <<>> THEN [s EXCEPT !.phys = <<>>]
    ELSE [s EXCEPT !.phys = SelectSeq(@, LAMBDA g : <<g.dim, g.tag>> \notin Range(dimTags))]

\* gmsh.model.removePhysicalName(name): every group carrying the name loses it.
removePhysicalName(s, name) ==
    [s EXCEPT !.phys = [i \in 1..Len(@) |->
        IF @[i].name = name /\ name # "" THEN [@[i] EXCEPT !.name = ""] ELSE @[i]]]

\* gmsh.model.getBoundary([v], oriented=False): the surfaces bounding a volume.
getBoundary(s, v) ==
    {Surf(tg) : tg \in {s.volumes[v[2]].src, s.volumes[v[2]].far} \cup s.volumes[v[2]].sides}

\* gmsh.model.occ.extrude(surfs, 0, 0, dz): per extruded surface, in order, the
\* engine returns its new (far) surface, then its volume, then its side surfaces.
\* The engine's record of a volume: the surface it was extruded from (src), the
\* new surface facing it (far) and the side surfaces.
ExtrFar(s, i) == SetMax(DOMAIN s.entities) + (i - 1) * (1 + NSides) + 1
ExtrVol(s, i) == SetMax(DOMAIN s.volumes) + i
ExtrBatch(s, surfs) ==
    Flatten([i \in 1..Len(surfs) |->
        <<Surf(ExtrFar(s, i)), Volm(ExtrVol(s, i))>>
        \o [j \in 1..NSides |-> Surf(ExtrFar(s, i) + j)]])
ExtrState(s, surfs) ==
    LET new2 == UNION {ExtrFar(s, i)..(ExtrFar(s, i) + NSides) : i \in 1..Len(surfs)}
        new3 == {ExtrVol(s, i) : i \in 1..Len(surfs)}
    IN  [s EXCEPT
          !.entities = [t \in DOMAIN s.entities \cup new2 |->
                           IF t \in DOMAIN s.entities THEN s.entities[t] ELSE {}],
          !.volumes = [v \in DOMAIN s.volumes \cup new3 |->
                           IF v \in DOMAIN s.volumes THEN s.volumes[v]
                           ELSE LET i == v - SetMax(DOMAIN s.volumes)
                                IN  [src |-> surfs[i][2], far |-> ExtrFar(s, i),
                                     sides |-> (ExtrFar(s, i) + 1)..(ExtrFar(s, i) + NSides)]]]

\* gmsh.model.occ.fragment(surf1, surf2) over all surfaces of the plane: the
\* result is the partition of the covered cells by the set of surfaces covering
\* them. A surface nothing cuts keeps its tag, every other piece gets a new tag.
FragSig(s, c) == {t \in DOMAIN s.entities : c \in s.entities[t]}
FragPieces(s) ==
    {{c \in Cells : FragSig(s, c) = g} : g \in {FragSig(s, c) : c \in Cells} \ {{}}}
FragKept(s, p) ==
    LET g == FragSig(s, SetMin(p))
    IN  Cardinality(g) = 1 /\ s.entities[CHOOSE t \in g : TRUE] = p
FragTag(s, p) ==
    IF FragKept(s, p) THEN CHOOSE t \in FragSig(s, SetMin(p)) : TRUE
    ELSE SetMax(DOMAIN s.entities)
         + Cardinality({q \in FragPieces(s) : ~FragKept(s, q) /\ SetMin(q) <= SetMin(p)})
\* frag_surf[1]: for each input surface, in input order, the surfaces it became.
FragMap(s) ==
    LET inp == getEntities2(s)
    IN  [i \in 1..Len(inp) |->
           LET kids == SortedSeq({FragTag(s, p) : p \in {q \in FragPieces(s) :
                                     inp[i][2] \in FragSig(s, SetMin(q))}})
           IN  [j \in 1..Len(kids) |-> Surf(kids[j])]]
FragState(s) ==
    [s EXCEPT !.entities =
        [t \in {FragTag(s, p) : p \in FragPieces(s)} |->
            CHOOSE p \in FragPieces(s) : FragTag(s, p) = t]]

\* ------------------------------------------------------- DeviceGenerator
Raise(s, e) == [s EXCEPT !.exc = e]

store_mat_properties(s, label, material, pdoping, ndoping) ==
    [s EXCEPT !.material_dict =
        DictSet(@, label, [material |-> material, pdoping |-> pdoping, ndoping |-> ndoping])]

\* store_bnd_conditions adding an entry beside the one the label has.
store_bnd_conditions_added(s, label, bnd_type, bnd_params) ==
    IF bnd_type # None
    THEN [s EXCEPT !.bnd_dict = Append(@, [k |-> label,
                                          v |-> [type |-> bnd_type, params |-> bnd_params]])]
    ELSE s

store_bnd_conditions(s, label, bnd_type, bnd_params) ==
    IF bnd_type # None
    THEN [s EXCEPT !.bnd_dict = DictSet(@, label, [type |-> bnd_type, params |-> bnd_params])]
    ELSE s

\* get_names(dim): the names of the groups of a dimension.
get_names(s, dim) ==
    LET gs == getPhysicalGroups(s, dim)
    IN  [i \in 1..Len(gs) |-> getPhysicalName(s, dim, gs[i][2])]

\* get_tag_from_name for a list of names: per name the first group carrying it,
\* a name no group carries contributing nothing.
RECURSIVE get_tag_from_name(_, _, _)
get_tag_from_name(s, names, dim) ==
    IF names = <<>> THEN <<>>
    ELSE LET gs == SelectSeq(getPhysicalGroups(s, dim),
                             LAMBDA g : getPhysicalName(s, dim, g[2]) = Head(names))
         IN  (IF gs = <<>> THEN <<>> ELSE <<gs[1][2]>>)
             \o get_tag_from_name(s, Tail(names), dim)

\* A name argument is a string (single) or a list of strings. For a single string
\* get_tag_from_name returns tags[0], an IndexError when no group carries it.
NamesOf(label) == IF label.single THEN <<label.name>> ELSE label.names
get_tag_raises(s, label, dim) ==
    label.single /\ get_tag_from_name(s, NamesOf(label), dim) = <<>>

\* get_ent_tag_from_name: the entities of those groups, concatenated.
get_ent_tag_from_name(s, label, dim) ==
    LET phys_tag == get_tag_from_name(s, NamesOf(label), dim)
    IN  Flatten([i \in 1..Len(phys_tag) |-> getEntitiesForPhysicalGroup(s, dim, phys_tag[i])])

\* Reregister never giving the name back.
Reregister_dropped(s, dim, ent_list, name, new_name) == s

\* label_entity, lines 222-226: the entities left of the removed group get its
\* name back in a new group, unless the name is the new name or none is left.
Reregister(s, dim, ent_list, name, new_name) ==
    IF name # new_name /\ ent_list # <<>>
    THEN setPhysicalName(addPhysicalGroup(s, dim, ent_list), dim, NewPhysTag(s, dim), name)
    ELSE s

\* label_entity's loop over ent_tags, from position i.
RECURSIVE label_entity_loop(_, _, _, _, _)
label_entity_loop(s, dim, ent_tags, new_name, i) ==
    IF i > Len(ent_tags) THEN s
    ELSE
      LET tag == ent_tags[i]
          phys_tags == getPhysicalGroupsForEntity(s, dim, tag)
      IN  IF phys_tags = <<>> THEN label_entity_loop(s, dim, ent_tags, new_name, i + 1)
          ELSE
            LET phys_tag == phys_tags[1]
                name == getPhysicalName(s, dim, phys_tag)
                ent_list == ListRemove(getEntitiesForPhysicalGroup(s, dim, phys_tag), tag)
                s1 == removePhysicalName(
                          removePhysicalGroups(s, <<<<dim, phys_tag>>>>), name)
                s2 == Reregister(s1, dim, ent_list, name, new_name)
            IN  label_entity_loop(s2, dim, ent_tags, new_name, i + 1)

label_entity(s, dim, ent_tags, new_name) ==
    LET s1 == label_entity_loop(s, dim, ent_tags, new_name, 1)
    IN  setPhysicalName(addPhysicalGroup(s1, dim, ent_tags), dim, NewPhysTag(s1, dim), new_name)

label_volume(s, ent_tags, new_name, material, pdoping, ndoping) ==
    store_mat_properties(label_entity(s, 3, ent_tags, new_name),
                         new_name, material, pdoping, ndoping)

label_surface(s, ent_tags, new_name, bnd_type, bnd_params) ==
    store_bnd_conditions(label_entity(s, 2, ent_tags, new_name),
                         new_name, bnd_type, bnd_params)

\* label_bottom without the check of first_layer.
label_bottom_unguarded(s, label, bnd_params, bnd_type) ==
    LET tags == [i \in 1..Len(s.bottom_surface) |-> s.bottom_surface[i][2]]
        s1 == setPhysicalName(addPhysicalGroup(s, 2, tags), 2, NewPhysTag(s, 2), label)
    IN  store_bnd_conditions(s1, label, bnd_type, bnd_params)

label_bottom(s, label, bnd_params, bnd_type) ==
    IF s.first_layer THEN Raise(s, "ValueError")
    ELSE
      LET tags == [i \in 1..Len(s.bottom_surface) |-> s.bottom_surface[i][2]]
          s1 == setPhysicalName(addPhysicalGroup(s, 2, tags), 2, NewPhysTag(s, 2), label)
      IN  store_bnd_conditions(s1, label, bnd_type, bnd_params)

\* _label_surfaces' loop over the surfaces, from position i.
RECURSIVE label_surfaces_loop(_, _, _)
label_surfaces_loop(s, entities, i) ==
    IF i > Len(entities) THEN s
    ELSE
      LET e == entities[i]
          name == "surf" \o ToStr(s.s_counter)
          s1 == setPhysicalName(addPhysicalGroup(s, 2, <<e[2]>>), 2, NewPhysTag(s, 2), name)
          s2 == [s1 EXCEPT !.vol_entities = DictSet(@, name, <<<<e>>>>),
                           !.vol_entities_top = DictSet(@, name, <<<<e>>>>),
                           !.s_counter = @ + 1]
      IN  label_surfaces_loop(s2, entities, i + 1)

label_surfaces(s) ==
    label_surfaces_loop([s EXCEPT !.vol_entities = <<>>, !.vol_entities_top = <<>>],
                        getEntities2(s), 1)

\* _update_dot_frag taking the pieces of the first footprint surface only.
update_dot_frag_first(s, surf, frag_map) ==
    [s EXCEPT !.dot_tag = [j \in 1..Len(@) |->
        LET tags == @[j][1]
            indices == SelectSeq([i \in 1..Len(surf) |-> i],
                                 LAMBDA i : surf[i][2] \in Range(tags))
            new == IF indices = <<>> THEN <<>>
                   ELSE [m \in 1..Len(frag_map[indices[1]]) |-> frag_map[indices[1]][m][2]]
        IN  <<new>>]]

\* _update_dot_frag: every dot's footprint becomes the surfaces its footprint
\* surfaces were fragmented into.
update_dot_frag(s, surf, frag_map) ==
    [s EXCEPT !.dot_tag = [j \in 1..Len(@) |->
        LET tags == @[j][1]
            indices == SelectSeq([i \in 1..Len(surf) |-> i],
                                 LAMBDA i : surf[i][2] \in Range(tags))
            new == Flatten([n \in 1..Len(indices) |->
                       [m \in 1..Len(frag_map[indices[n]]) |-> frag_map[indices[n]][m][2]]])
        IN  <<new>>]]

\* setup_top_layer without the reset of the surface counter.
setup_top_layer_noreset(s) ==
    IF ~s.first_layer THEN Raise(s, "ValueError")
    ELSE
      LET s1 == removePhysicalGroups(s, <<>>)
          surfaces == getEntities2(s1)
          s2 == update_dot_frag(FragState(s1), surfaces, FragMap(s1))
          s3 == [s2 EXCEPT !.bottom_surface = getEntities2(s2),
                           !.top_surface = getEntities2(s2)]
      IN  label_surfaces(s3)

\* setup_top_layer without the check of first_layer.
setup_top_layer_unguarded(s) ==
    LET s1 == [removePhysicalGroups(s, <<>>) EXCEPT !.s_counter = 1]
        surfaces == getEntities2(s1)
        s2 == update_dot_frag(FragState(s1), surfaces, FragMap(s1))
        s3 == [s2 EXCEPT !.bottom_surface = getEntities2(s2),
                         !.top_surface = getEntities2(s2)]
    IN  label_surfaces(s3)

setup_top_layer(s) ==
    IF ~s.first_layer THEN Raise(s, "ValueError")
    ELSE
      LET s1 == [removePhysicalGroups(s, <<>>) EXCEPT !.s_counter = 1]
          surfaces == getEntities2(s1)
          s2 == update_dot_frag(FragState(s1), surfaces, FragMap(s1))
          s3 == [s2 EXCEPT !.bottom_surface = getEntities2(s2),
                           !.top_surface = getEntities2(s2)]
      IN  label_surfaces(s3)

\* The positions of the volumes in an extrusion batch.
VolIndex(extr_surf) ==
    SelectSeq([i \in 1..Len(extr_surf) |-> i], LAMBDA i : extr_surf[i][1] = 3)

\* label_sides' loop over the side surfaces, from position i.
RECURSIVE label_sides_loop(_, _, _)
label_sides_loop(s, side_surf, i) ==
    IF i > Len(side_surf) THEN s
    ELSE
      LET name == "surf" \o ToStr(s.s_counter)
          s1 == setPhysicalName(addPhysicalGroup(s, 2, <<side_surf[i]>>),
                                2, NewPhysTag(s, 2), name)
      IN  label_sides_loop([s1 EXCEPT !.s_counter = @ + 1], side_surf, i + 1)

\* label_sides: one generic group per side surface of the batch (the entries after
\* a volume up to, not including, the entry before the next volume). The set of
\* side surfaces is walked by tag.
label_sides(s, extr_surf) ==
    LET vol_index == VolIndex(extr_surf)
    IN  IF vol_index = <<>> THEN Raise(s, "IndexError")
        ELSE
          LET between == UNION {{extr_surf[p][2] :
                                    p \in (vol_index[i] + 1)..(vol_index[i + 1] - 2)} :
                                 i \in 1..(Len(vol_index) - 1)}
              after == {extr_surf[p][2] :
                           p \in (vol_index[Len(vol_index)] + 1)..Len(extr_surf)}
          IN  label_sides_loop(s, SortedSeq(between \cup after), 1)

\* track_surface taking the entry right after every volume.
track_surface_after(extr_surf) ==
    LET V == VolIndex(extr_surf)
    IN  [i \in 1..Len(V) |-> extr_surf[V[i] + 1]]

\* track_surface: for every volume of the batch, the entry right before it.
track_surface(extr_surf) ==
    LET V == VolIndex(extr_surf)
    IN  [i \in 1..Len(V) |-> extr_surf[V[i] - 1]]

\* VolList losing the first surface's volume.
VolList_short(surf_to_extr, extr_surf, surfs) ==
    LET vols == SelectSeq(extr_surf, LAMBDA e : e[1] = 3)
    IN  [i \in 1..(Len(surfs) - 1) |-> vols[Index(surf_to_extr, surfs[i + 1])]]

\* _update_vol_entities, lines 481-484: per surface of the key's last frame, the
\* volume at the surface's position among the extruded surfaces.
VolList(surf_to_extr, extr_surf, surfs) ==
    LET vols == SelectSeq(extr_surf, LAMBDA e : e[1] = 3)
    IN  [i \in 1..Len(surfs) |-> vols[Index(surf_to_extr, surfs[i])]]

\* NewSurfs reading the batch entry after the volume instead of the one before.
NewSurfs_after(extr_surf, new_vols) ==
    [i \in 1..Len(new_vols) |-> extr_surf[Index(extr_surf, new_vols[i]) + 1]]

\* _update_vol_entities, lines 492-495: per volume, the batch entry before it.
NewSurfs(extr_surf, new_vols) ==
    [i \in 1..Len(new_vols) |-> extr_surf[Index(extr_surf, new_vols[i]) - 1]]

\* _update_vol_entities' loop over the keys of vol_entities, from position n. A
\* surface that is not among the extruded ones raises (list.index) and leaves the
\* keys before it updated.
RECURSIVE update_vol_entities_loop(_, _, _, _)
update_vol_entities_loop(s, surf_to_extr, extr_surf, n) ==
    IF n > Len(s.vol_entities) THEN s
    ELSE
      LET surfs == s.vol_entities[n].v[Len(s.vol_entities[n].v)]
      IN  IF \E i \in 1..Len(surfs) : Index(surf_to_extr, surfs[i]) = 0
          THEN Raise(s, "ValueError")
          ELSE
            LET vol_list == VolList(surf_to_extr, extr_surf, surfs)
                new_surfs == NewSurfs(extr_surf, vol_list)
                s1 == [s EXCEPT !.vol_entities[n].v = @ \o <<vol_list, new_surfs>>]
            IN  update_vol_entities_loop(s1, surf_to_extr, extr_surf, n + 1)

\* _update_vol_entities writing the lineages to vol_entities_top as well.
update_vol_entities_top(s, surf_to_extr, extr_surf) ==
    LET r == update_vol_entities_loop(s, surf_to_extr, extr_surf, 1)
    IN  [r EXCEPT !.vol_entities_top = r.vol_entities]

\* _update_vol_entities: every name's lineage gets the volumes under its last
\* surfaces and the surfaces under those volumes.
update_vol_entities(s, surf_to_extr, extr_surf) ==
    update_vol_entities_loop(s, surf_to_extr, extr_surf, 1)

\* DotVolIndices testing only the first surface of the dot's last frame.
DotVolIndices_first(s, extr_surf, dot_below) ==
    SelectSeq(VolIndex(extr_surf),
              LAMBDA ix : dot_below # <<>>
                          /\ Surf(dot_below[1]) \in getBoundary(s, extr_surf[ix]))

\* _update_dot_vol, lines 549-558: the batch positions of the volumes whose
\* boundary meets the dot's last frame.
DotVolIndices(s, extr_surf, dot_below) ==
    SelectSeq(VolIndex(extr_surf),
              LAMBDA ix : {Surf(tg) : tg \in Range(dot_below)}
                          \cap getBoundary(s, extr_surf[ix]) # {})

\* A dot label argument: None, a string (made a one-element list) or a list.
DotLabelList(label) == IF label.t = "str" THEN <<label.v>> ELSE label.v

\* DotName numbering the dots from one.
DotName_onebased(s, label, i) ==
    IF label.t = "None"
    THEN "dot" \o ToStr(i) \o "-" \o ToStr(s.layer_counter)
    ELSE DotLabelList(label)[i]

\* _update_dot_vol, lines 569-572: the name of dot i's volume group (i is 1-based
\* here, Python's i is i - 1).
DotName(s, label, i) ==
    IF label.t = "None"
    THEN "dot" \o ToStr(i - 1) \o "-" \o ToStr(s.layer_counter)
    ELSE DotLabelList(label)[i]

\* _update_dot_vol's loop over the dots, from dot i (1-based; Python's i is i - 1).
RECURSIVE update_dot_vol_loop(_, _, _, _, _, _, _, _)
update_dot_vol_loop(s, extr_surf, dot_region, label, material, pdoping, ndoping, i) ==
    IF i > Len(s.dot_tag) THEN s
    ELSE
      LET dot == s.dot_tag[i]
          vol_indices == DotVolIndices(s, extr_surf, dot[Len(dot)])
          s1 == [s EXCEPT !.dot_tag[i] =
                    Append(@, [n \in 1..Len(vol_indices) |-> extr_surf[vol_indices[n] - 1][2]])]
      IN  IF ~dot_region
          THEN update_dot_vol_loop(s1, extr_surf, dot_region, label,
                                   material, pdoping, ndoping, i + 1)
          ELSE IF i > Len(s1.dot_volume) THEN Raise(s1, "IndexError")
          ELSE
            LET vols == [n \in 1..Len(vol_indices) |-> extr_surf[vol_indices[n]][2]]
                s2 == [s1 EXCEPT !.dot_volume[i] = Append(@, vols)]
            IN  IF label.t # "None" /\ i > Len(DotLabelList(label))
                THEN Raise(s2, "IndexError")
                ELSE
                  LET dot_label == DotName(s, label, i)
                      s3 == setPhysicalName(addPhysicalGroup(s2, 3, vols),
                                            3, NewPhysTag(s2, 3), dot_label)
                      s4 == store_mat_properties(s3, dot_label, material, pdoping, ndoping)
                  IN  update_dot_vol_loop(s4, extr_surf, dot_region, label,
                                          material, pdoping, ndoping, i + 1)

update_dot_vol(s, extr_surf, dot_region, label, material, pdoping, ndoping) ==
    update_dot_vol_loop(s, extr_surf, dot_region, label, material, pdoping, ndoping, 1)

\* new_layer from the naming of the layer's volumes on (lines 357-384).
new_layer_name(s, extr_surf, label, material, pdoping, ndoping) ==
    LET flat_dot_vol == Flatten(Flatten(s.dot_volume))
        V == SelectSeq(extr_surf, LAMBDA e : e[1] = 3)
        Vfree == SelectSeq(V, LAMBDA vol : vol[2] \notin Range(flat_dot_vol))
        volumes == [i \in 1..Len(Vfree) |-> Vfree[i][2]]
        s1 == addPhysicalGroup(s, 3, volumes)
        lab == IF label = None THEN "volume" \o ToStr(s.layer_counter) ELSE label
        s2 == setPhysicalName(s1, 3, NewPhysTag(s, 3), lab)
    IN  store_mat_properties([s2 EXCEPT !.layer_counter = @ + 1],
                             lab, material, pdoping, ndoping)

\* new_layer leaving first_layer as it is.
new_layer_first(s, label, dot_region, dot_label, material, pdoping, ndoping, sides) ==
    LET surf_to_extrude == s.bottom_surface
        extr_surf == ExtrBatch(s, surf_to_extrude)
        s1 == ExtrState(s, surf_to_extrude)
        s2 == IF sides THEN label_sides(s1, extr_surf) ELSE s1
    IN  IF s2.exc # NoExc THEN s2
        ELSE
          LET s3 == update_vol_entities(s2, surf_to_extrude, extr_surf)
          IN  IF s3.exc # NoExc THEN s3
              ELSE
                LET s4 == [s3 EXCEPT !.bottom_surface = track_surface(extr_surf)]
                    s5 == update_dot_vol(s4, extr_surf, dot_region, dot_label,
                                         material, pdoping, ndoping)
                IN  IF s5.exc # NoExc THEN s5
                    ELSE new_layer_name(s5, extr_surf, label, material, pdoping, ndoping)

\* new_layer: first_layer is cleared, bottom_surface extruded, the sides
\* labelled if asked, the lineages and the dots updated, the layer named.
new_layer(s, label, dot_region, dot_label, material, pdoping, ndoping, sides) ==
    LET surf_to_extrude == s.bottom_surface
        extr_surf == ExtrBatch(s, surf_to_extrude)
        s1 == ExtrState([s EXCEPT !.first_layer = FALSE], surf_to_extrude)
        s2 == IF sides THEN label_sides(s1, extr_surf) ELSE s1
    IN  IF s2.exc # NoExc THEN s2
        ELSE
          LET s3 == update_vol_entities(s2, surf_to_extrude, extr_surf)
          IN  IF s3.exc # NoExc THEN s3
              ELSE
                LET s4 == [s3 EXCEPT !.bottom_surface = track_surface(extr_surf)]
                    s5 == update_dot_vol(s4, extr_surf, dot_region, dot_label,
                                         material, pdoping, ndoping)
                IN  IF s5.exc # NoExc THEN s5
                    ELSE new_layer_name(s5, extr_surf, label, material, pdoping, ndoping)

\* remove_phys_groups: the names, then the groups found under them.
RECURSIVE remove_names(_, _)
remove_names(s, names) ==
    IF names = <<>> THEN s ELSE remove_names(removePhysicalName(s, Head(names)), Tail(names))

remove_phys_groups(s, label) ==
    LET phys_tags == get_tag_from_name(s, NamesOf(label), 2)
    IN  removePhysicalGroups(remove_names(s, NamesOf(label)),
                             [i \in 1..Len(phys_tags) |-> <<2, phys_tags[i]>>])

\* remove_all stopping after the first tag.
remove_all_first(seq, tags) ==
    IF tags = <<>> THEN seq ELSE ListRemove(seq, Surf(Head(tags)))

\* top_surface.remove((2, tag)) for every tag, a missing one passed over.
RECURSIVE remove_all(_, _)
remove_all(seq, tags) ==
    IF tags = <<>> THEN seq ELSE remove_all(ListRemove(seq, Surf(Head(tags))), Tail(tags))

RECURSIVE pop_all(_, _)
pop_all(d, names) == IF names = <<>> THEN d ELSE pop_all(DictPop(d, Head(names)), Tail(names))

\* _update_vol_entity_keys leaving the old names' lineages in vol_entities.
update_vol_entity_keys_kept(s, ent_tags, old_label, new_label) ==
    LET s1 == remove_names(s, NamesOf(old_label))
        frame == [i \in 1..Len(ent_tags) |-> Surf(ent_tags[i])]
    IN  [s1 EXCEPT !.vol_entities = DictSet(@, new_label, <<frame>>),
                   !.vol_entities_top = DictSet(@, new_label, <<frame>>)]

\* _update_vol_entity_keys: the old names leave the model and vol_entities, the
\* new label starts a one-frame lineage in vol_entities and vol_entities_top.
update_vol_entity_keys(s, ent_tags, old_label, new_label) ==
    LET s1 == remove_names(s, NamesOf(old_label))
        frame == [i \in 1..Len(ent_tags) |-> Surf(ent_tags[i])]
    IN  [s1 EXCEPT !.vol_entities = DictSet(pop_all(@, NamesOf(old_label)), new_label, <<frame>>),
                   !.vol_entities_top = DictSet(@, new_label, <<frame>>)]

\* relabel_surface. With new_label None the groups are removed and the call then
\* reads ent_tags, which that branch never binds (UnboundLocalError).
relabel_surface(s, old_label, new_label, bnd_params, bnd_type) ==
    IF new_label = None THEN Raise(remove_phys_groups(s, old_label), "UnboundLocalError")
    ELSE IF get_tag_raises(s, old_label, 2) THEN Raise(s, "IndexError")
    ELSE
      LET phys_tags == get_tag_from_name(s, NamesOf(old_label), 2)
          ent_tags == get_ent_tag_from_name(s, old_label, 2)
          s1 == removePhysicalGroups(s, [i \in 1..Len(phys_tags) |-> <<2, phys_tags[i]>>])
          s2 == setPhysicalName(addPhysicalGroup(s1, 2, ent_tags),
                                2, NewPhysTag(s1, 2), new_label)
          s3 == store_bnd_conditions(s2, new_label, bnd_type, bnd_params)
          s4 == [s3 EXCEPT !.top_surface = remove_all(@, ent_tags)]
      IN  update_vol_entity_keys(s4, ent_tags, old_label, new_label)

\* The name of a piece numbered from one.
SplitName_onebased(name, i) == name \o "-" \o ToStr(i)

\* f'{name}-{i}' for the member at position i (Python's i is i - 1).
SplitName(name, i) == name \o "-" \o ToStr(i - 1)

\* split_surface's loop over the members, from position i.
RECURSIVE split_loop(_, _, _, _)
split_loop(s, name, ents, i) ==
    IF i > Len(ents) THEN s
    ELSE
      LET new_name == SplitName(name, i)
          s1 == setPhysicalName(addPhysicalGroup(s, 2, <<ents[i]>>),
                                2, NewPhysTag(s, 2), new_name)
          s2 == [s1 EXCEPT !.vol_entities = DictSet(@, new_name, <<<<Surf(ents[i])>>>>),
                           !.vol_entities_top = DictSet(@, new_name, <<<<Surf(ents[i])>>>>)]
      IN  split_loop(s2, name, ents, i + 1)

\* split_surface without the return for a group of one surface.
split_surface_always(s, name) ==
    LET label == [single |-> TRUE, name |-> name]
    IN  IF get_tag_raises(s, label, 2) THEN Raise(s, "IndexError")
        ELSE
          LET ents == get_ent_tag_from_name(s, label, 2)
              phys_tag == get_tag_from_name(s, <<name>>, 2)[1]
              s1 == removePhysicalName(
                        removePhysicalGroups(s, <<<<2, phys_tag>>>>), name)
              s2 == split_loop(s1, name, ents, 1)
          IN  [s2 EXCEPT !.vol_entities = DictPop(@, name),
                         !.vol_entities_top = DictPop(@, name)]

split_surface(s, name) ==
    LET label == [single |-> TRUE, name |-> name]
    IN  IF get_tag_raises(s, label, 2) THEN Raise(s, "IndexError")
        ELSE
          LET ents == get_ent_tag_from_name(s, label, 2)
              phys_tag == get_tag_from_name(s, <<name>>, 2)[1]
          IN  IF Len(ents) = 1 THEN s
              ELSE
                LET s1 == removePhysicalName(
                              removePhysicalGroups(s, <<<<2, phys_tag>>>>), name)
                    s2 == split_loop(s1, name, ents, 1)
                IN  [s2 EXCEPT !.vol_entities = DictPop(@, name),
                               !.vol_entities_top = DictPop(@, name)]

\* gmsh.model.occ.addRectangle: a new surface of the plane, with the next tag.
addRectangle(s, rect) ==
    [s EXCEPT !.entities = [tg \in DOMAIN @ \cup {SetMax(DOMAIN @) + 1} |->
                               IF tg \in DOMAIN @ THEN @[tg] ELSE rect]]

\* new_box_field: one more mesh field.
new_box_field(s) == [s EXCEPT !.field_counter = @ + 1]

\* new_dot_rectangle without the call of setup_top_layer.
new_dot_rectangle_nosetup(s, rect, h) ==
    LET surf == SetMax(DOMAIN s.entities) + 1
        s1 == addRectangle(s, rect)
        s2 == IF h # None THEN new_box_field(s1) ELSE s1
        s3 == [s2 EXCEPT !.dot_tag = Append(@, <<<<surf>>>>),
                         !.dot_volume = Append(@, <<>>)]
    IN  IF ~s.first_layer THEN Raise(s3, "ValueError")
        ELSE [s3 EXCEPT !.dot_counter = @ + 1]

new_dot_rectangle(s, rect, h) ==
    LET surf == SetMax(DOMAIN s.entities) + 1
        s1 == addRectangle(s, rect)
        s2 == IF h # None THEN new_box_field(s1) ELSE s1
        s3 == [s2 EXCEPT !.dot_tag = Append(@, <<<<surf>>>>),
                         !.dot_volume = Append(@, <<>>)]
        s4 == setup_top_layer(s3)
    IN  IF s4.exc # NoExc THEN s4 ELSE [s4 EXCEPT !.dot_counter = @ + 1]

\* new_constant_field: one more mesh field.
new_constant_field(s) == [s EXCEPT !.field_counter = @ + 1]

\* set_dot_region_from_surfs's loop over the names, from position i: every
\* entity of the name's group becomes a dot of one surface frame. A name no
\* group carries makes get_tag_from_name raise IndexError.
RECURSIVE set_dot_region_loop(_, _, _)
set_dot_region_loop(s, surfs, i) ==
    IF i > Len(surfs) THEN s
    ELSE IF get_tag_raises(s, [single |-> TRUE, name |-> surfs[i]], 2)
    THEN Raise(s, "IndexError")
    ELSE
      LET surfs_in_phys == get_ent_tag_from_name(s, [single |-> TRUE, name |-> surfs[i]], 2)
      IN  set_dot_region_loop(
              [s EXCEPT !.dot_tag = @ \o [j \in 1..Len(surfs_in_phys) |->
                                             <<<<surfs_in_phys[j]>>>>]],
              surfs, i + 1)

\* set_dot_region_from_surfs: dot_tag is built anew from the surfaces of the
\* names, dot_counter is the number of names, as many empty lineages are
\* appended to dot_volume, and the top layer is set up again.
set_dot_region_from_surfs(s, surfs, h) ==
    LET s1 == set_dot_region_loop([s EXCEPT !.dot_tag = <<>>], NamesOf(surfs), 1)
    IN  IF s1.exc # NoExc THEN s1
        ELSE
          LET s2 == IF h # None THEN new_constant_field(s1) ELSE s1
              s3 == [s2 EXCEPT !.dot_counter = Len(NamesOf(surfs)),
                               !.dot_volume = @ \o [j \in 1..Len(NamesOf(surfs)) |-> <<>>]]
          IN  setup_top_layer(s3)

\* The state __init__ leaves before it calls setup_top_layer, the layout opened:
\* layout is the sequence of the mask surfaces' cell sets.
Constructed(layout) ==
    [entities |-> [tg \in 1..Len(layout) |-> layout[tg]],
     volumes |-> <<>>,
     phys |-> <<>>,
     first_layer |-> TRUE,
     bottom_surface |-> <<>>,
     top_surface |-> <<>>,
     layer_counter |-> 1,
     s_counter |-> 1,
     dot_counter |-> 1,
     field_counter |-> 1,
     dot_tag |-> <<>>,
     dot_volume |-> <<>>,
     vol_entities |-> <<>>,
     vol_entities_top |-> <<>>,
     material_dict |-> <<>>,
     bnd_dict |-> <<>>,
     exc |-> NoExc]

\* ------------------------------------------------------------ gds_parser
\* A line of the mask file is a record: [t |-> "UNITS", mum, m] with the two
\* scale factors as powers of ten (10^mum and 10^m), [t |-> "LAYER", id, tail]
\* with the characters of the identifier and those after it up to the newline,
\* [t |-> "XY", pt] and [t |-> "PT", pt] with the text pt = [x, y, pad] of a
\* coordinate (pad: leading blanks), [t |-> "ENDEL"], and [t |-> "OTHER"].
RECURSIVE Pow10(_)
Pow10(n) == IF n = 0 THEN 1 ELSE 10 * Pow10(n - 1)

\* round(q / d) dropping the digits after the last one kept.
RoundDiv_floor(q, d) == q \div d

\* round(q / d) of Python 3: to the nearest integer, a tie to the even one.
RoundDiv(q, d) ==
    LET lo == q \div d
        r2 == 2 * (q % d)
    IN  IF r2 < d THEN lo
        ELSE IF r2 > d THEN lo + 1
        ELSE IF lo % 2 = 0 THEN lo ELSE lo + 1

\* round(float(a) * units_m * 1e6, 6) with units_m = 10^m: the decimal number
\* mant * 10^exp. Below 10^-6 the digits are rounded away.
Scaled(a, m) ==
    IF a = 0 THEN [mant |-> 0, exp |-> 0]
    ELSE IF m + 6 >= -6 THEN [mant |-> a, exp |-> m + 6]
    ELSE LET r == RoundDiv(a, Pow10(-6 - (m + 6)))
         IN  IF r = 0 THEN [mant |-> 0, exp |-> 0] ELSE [mant |-> r, exp |-> -6]

\* remove_prefix(line, "XY "): the text of the XY line's coordinate.
remove_prefix(line) == line.pt

\* format_point numbering the point with the lines' counter.
format_point_shared(p, point) ==
    [k |-> "Point", id |-> p.line_counter,
     x |-> Scaled(point.x, p.units_m), y |-> Scaled(point.y, p.units_m),
     z |-> 0, h |-> p.h]

\* format_point: the Point statement of a coordinate line, numbered pt_counter.
format_point(p, point) ==
    [k |-> "Point", id |-> p.pt_counter,
     x |-> Scaled(point.x, p.units_m), y |-> Scaled(point.y, p.units_m),
     z |-> 0, h |-> p.h]

\* outfile.write(statement)
Write(p, stmt) == [p EXCEPT !.out = Append(@, stmt)]

\* The Line statements n -> n + 1 for n in range(checkpoint, pt_counter - 1).
RECURSIVE create_lines(_, _)
create_lines(p, n) ==
    IF n >= p.pt_counter - 1 THEN p
    ELSE create_lines(
             [Write(p, [k |-> "Line", id |-> p.line_counter, a |-> n, b |-> n + 1])
                 EXCEPT !.line_counter = @ + 1],
             n + 1)

\* _create_elements without the closing line.
create_elements_open(p, checkpoint, layer) ==
    LET line_checkpoint == p.line_counter
        p2 == create_lines(p, checkpoint)
        line_numbers == [i \in 1..(p2.line_counter - line_checkpoint) |->
                            line_checkpoint + i - 1]
        p3 == Write(p2, [k |-> "Curve Loop", id |-> p2.cl_counter, lines |-> line_numbers])
        p4 == [p3 EXCEPT !.layers = DictSet(@, layer, Append(DictGet(@, layer), p3.cl_counter))]
        p5 == Write(p4, [k |-> "Plane Surface", id |-> p4.surf_counter,
                         loop |-> p4.cl_counter])
    IN  Write([p5 EXCEPT !.cl_counter = @ + 1, !.surf_counter = @ + 1],
              [k |-> "Blank"])

\* _create_elements recording the next loop's identifier under the layer.
create_elements_late(p, checkpoint, layer) ==
    LET line_checkpoint == p.line_counter
        p1 == create_lines(p, checkpoint)
        p2 == [Write(p1, [k |-> "Line", id |-> p1.line_counter,
                          a |-> p1.pt_counter - 1, b |-> checkpoint])
                  EXCEPT !.line_counter = @ + 1]
        line_numbers == [i \in 1..(p2.line_counter - line_checkpoint) |->
                            line_checkpoint + i - 1]
        p3 == Write(p2, [k |-> "Curve Loop", id |-> p2.cl_counter, lines |-> line_numbers])
        p4 == [p3 EXCEPT !.layers = DictSet(@, layer,
                                            Append(DictGet(@, layer), p3.cl_counter + 1))]
        p5 == Write(p4, [k |-> "Plane Surface", id |-> p4.surf_counter,
                         loop |-> p4.cl_counter])
    IN  Write([p5 EXCEPT !.cl_counter = @ + 1, !.surf_counter = @ + 1],
              [k |-> "Blank"])

\* _create_elements: the lines between the element's points, the closing line,
\* the Curve Loop of those lines, its identifier recorded under the layer, the
\* Plane Surface of the loop, and an empty line.
create_elements(p, checkpoint, layer) ==
    LET line_checkpoint == p.line_counter
        p1 == create_lines(p, checkpoint)
        p2 == [Write(p1, [k |-> "Line", id |-> p1.line_counter,
                          a |-> p1.pt_counter - 1, b |-> checkpoint])
                  EXCEPT !.line_counter = @ + 1]
        line_numbers == [i \in 1..(p2.line_counter - line_checkpoint) |->
                            line_checkpoint + i - 1]
        p3 == Write(p2, [k |-> "Curve Loop", id |-> p2.cl_counter, lines |-> line_numbers])
        p4 == [p3 EXCEPT !.layers = DictSet(@, layer, Append(DictGet(@, layer), p3.cl_counter))]
        p5 == Write(p4, [k |-> "Plane Surface", id |-> p4.surf_counter,
                         loop |-> p4.cl_counter])
    IN  Write([p5 EXCEPT !.cl_counter = @ + 1, !.surf_counter = @ + 1],
              [k |-> "Blank"])

\* sort() of the layers' keys, strings of one character.
LayerOrder == <<" ", "0", "1", "2", "3", ";">>
SortedKeys(d) ==
    SelectSeq(LayerOrder, LAMBDA c : DictHas(d, c))

\* _create_surfaces: a BooleanFragments statement per pair of layers adjacent
\* in sorted order, the lower layer's identifiers and then the next layer's.
RECURSIVE create_surfaces_loop(_, _, _)
create_surfaces_loop(p, l, i) ==
    IF i > Len(l) - 1 THEN p
    ELSE create_surfaces_loop(
             Write(p, [k |-> "BooleanFragments",
                       surfaces |-> DictGet(p.layers, l[i]) \o DictGet(p.layers, l[i + 1])]),
             l, i + 1)

create_surfaces(p) == create_surfaces_loop(p, SortedKeys(p.layers), 1)

\* The characters of a LAYER line, and line[-3].
LayerLine(line) == <<"L", "A", "Y", "E", "R", " ">> \o line.id \o line.tail \o <<"\n">>
LayerChar(line) == LayerLine(line)[Len(LayerLine(line)) - 2]

\* _create_header going on with factors of one when the file has no UNITS line.
create_header_default(p) ==
    LET p1 == Write(Write(p, [k |-> "Header"]), [k |-> "Blank"])
        units == {i \in p.pos..Len(p.file) : p.file[i].t = "UNITS"}
        i == IF units = {} THEN 0 ELSE SetMin(units)
    IN  [p1 EXCEPT !.pos = i + 1,
                   !.units_mum = IF i = 0 THEN 0 ELSE p.file[i].mum,
                   !.units_m = IF i = 0 THEN 0 ELSE p.file[i].m,
                   !.pc = "points"]

\* _create_header: the header is written, the file is read up to its first
\* UNITS line and the two factors are kept. Without a UNITS line the file is
\* read to its end and scaling is not bound. Factors that do not match build a
\* ValueError that is not raised.
create_header(p) ==
    LET p1 == Write(Write(p, [k |-> "Header"]), [k |-> "Blank"])
        units == {i \in p.pos..Len(p.file) : p.file[i].t = "UNITS"}
    IN  IF units = {}
        THEN [p1 EXCEPT !.pos = Len(p.file) + 1, !.exc = "UnboundLocalError"]
        ELSE LET i == SetMin(units)
             IN  [p1 EXCEPT !.pos = i + 1,
                            !.units_mum = p.file[i].mum,
                            !.units_m = p.file[i].m,
                            !.pc = "points"]

\* The outer loop entering the inner loop without writing the XY line's point.
parse_points_line_skipfirst(p) ==
    IF p.pos > Len(p.file) THEN [p EXCEPT !.pc = "closed"]
    ELSE
      LET line == p.file[p.pos]
          p0 == [p EXCEPT !.pos = @ + 1]
      IN  IF line.t = "LAYER"
          THEN [p0 EXCEPT !.layer = LayerChar(line),
                          !.layers = IF DictHas(@, LayerChar(line)) THEN @
                                     ELSE DictSet(@, LayerChar(line), <<>>)]
          ELSE IF line.t = "XY"
          THEN [p0 EXCEPT !.l = remove_prefix(line),
                          !.count_checkpoint = p.pt_counter,
                          !.pc = "element"]
          ELSE p0

\* _parse_points, one pass of the outer loop: a LAYER line sets the layer, an XY
\* line writes the element's first point and enters the inner loop, any other
\* line is passed over. At the end of the file parse closes the output.
parse_points_line(p) ==
    IF p.pos > Len(p.file) THEN [p EXCEPT !.pc = "closed"]
    ELSE
      LET line == p.file[p.pos]
          p0 == [p EXCEPT !.pos = @ + 1]
      IN  IF line.t = "LAYER"
          THEN [p0 EXCEPT !.layer = LayerChar(line),
                          !.layers = IF DictHas(@, LayerChar(line)) THEN @
                                     ELSE DictSet(@, LayerChar(line), <<>>)]
          ELSE IF line.t = "XY"
          THEN [Write(p0, format_point(p0, remove_prefix(line)))
                   EXCEPT !.l = remove_prefix(line),
                          !.count_checkpoint = p.pt_counter,
                          !.pt_counter = @ + 1,
                          !.pc = "element"]
          ELSE p0

\* The inner loop writing every coordinate line as a point.
parse_element_line_all(p) ==
    IF p.pos > Len(p.file) THEN [p EXCEPT !.pc = "closed"]
    ELSE
      LET line == p.file[p.pos]
          p0 == [p EXCEPT !.pos = @ + 1]
      IN  IF line.t = "ENDEL"
          THEN IF p.layer = None
               THEN [Write(p0, [k |-> "Blank"]) EXCEPT !.exc = "UnboundLocalError"]
               ELSE [create_elements(Write(p0, [k |-> "Blank"]), p.count_checkpoint, p.layer)
                        EXCEPT !.pc = "points"]
          ELSE IF line.t # "PT"
          THEN [p0 EXCEPT !.exc = "ValueError"]
          ELSE [Write(p0, format_point(p0, line.pt)) EXCEPT !.pt_counter = @ + 1]

\* _parse_points, one pass of the inner loop: ENDEL ends the element, a line
\* that is not the text of the element's first coordinate is written as a
\* point. A line that is no coordinate makes float() raise; with no layer set
\* the name layer is not bound. At the end of the file both loops end and parse
\* closes the output.
parse_element_line(p) ==
    IF p.pos > Len(p.file) THEN [p EXCEPT !.pc = "closed"]
    ELSE
      LET line == p.file[p.pos]
          p0 == [p EXCEPT !.pos = @ + 1]
      IN  IF line.t = "ENDEL"
          THEN IF p.layer = None
               THEN [Write(p0, [k |-> "Blank"]) EXCEPT !.exc = "UnboundLocalError"]
               ELSE [create_elements(Write(p0, [k |-> "Blank"]), p.count_checkpoint, p.layer)
                        EXCEPT !.pc = "points"]
          ELSE IF line.t # "PT"
          THEN [p0 EXCEPT !.exc = "ValueError"]
          ELSE IF line.pt # p.l
          THEN [Write(p0, format_point(p0, line.pt)) EXCEPT !.pt_counter = @ + 1]
          ELSE p0

\* Parser.__init__
NewParser(file_path, h) ==
    [file |-> file_path, pos |-> 1, out |-> <<>>, h |-> h, layers |-> <<>>,
     pt_counter |-> 1, line_counter |-> 1, cl_counter |-> 1, surf_counter |-> 1,
     units_mum |-> None, units_m |-> None, layer |-> None, l |-> None,
     count_checkpoint |-> None, pc |-> "header", exc |-> NoExc]

\* A device opened from a .geo file has no Parser.
NoParser == [pc |-> "none", exc |-> NoExc]

\* ------------------------------------------------------------------ state
VARIABLES
    entities,         \* engine: tag of each 2D entity -> its cells of the mask plane
    volumes,          \* engine: tag of each volume -> [src, far, sides]
    phys,             \* engine: the physical groups [dim, tag, ents, name], by creation
    first_layer, bottom_surface, top_surface,
    layer_counter, s_counter, dot_counter, field_counter,
    dot_tag, dot_volume, vol_entities, vol_entities_top,
    material_dict, bnd_dict,
    exc,              \* the exception the last call raised, NoExc when it returned
    last,             \* the last call: its name and arguments
    pre,              \* the state the last call started in
    calls,            \* how many calls of each kind were made
    base,             \* vol_entities when the current run of new_layer calls began
    parser            \* the Parser of the mask file: its fields and its place in parse

vars == <<entities, volumes, phys, first_layer, bottom_surface, top_surface,
          layer_counter, s_counter, dot_counter, field_counter, dot_tag, dot_volume,
          vol_entities, vol_entities_top, material_dict, bnd_dict, exc, last, pre, calls,
          base, parser>>

Cur ==
    [entities |-> entities, volumes |-> volumes, phys |-> phys,
     first_layer |-> first_layer,
     bottom_surface |-> bottom_surface, top_surface |-> top_surface,
     layer_counter |-> layer_counter, s_counter |-> s_counter,
     dot_counter |-> dot_counter, field_counter |-> field_counter,
     dot_tag |-> dot_tag, dot_volume |-> dot_volume,
     vol_entities |-> vol_entities, vol_entities_top |-> vol_entities_top,
     material_dict |-> material_dict, bnd_dict |-> bnd_dict, exc |-> NoExc]

\* The variables take the state r a call ended in.
Becomes(r) ==
    /\ entities' = r.entities /\ volumes' = r.volumes /\ phys' = r.phys
    /\ first_layer' = r.first_layer
    /\ bottom_surface' = r.bottom_surface /\ top_surface' = r.top_surface
    /\ layer_counter' = r.layer_counter /\ s_counter' = r.s_counter
    /\ dot_counter' = r.dot_counter /\ field_counter' = r.field_counter
    /\ dot_tag' = r.dot_tag /\ dot_volume' = r.dot_volume
    /\ vol_entities' = r.vol_entities /\ vol_entities_top' = r.vol_entities_top
    /\ material_dict' = r.material_dict /\ bnd_dict' = r.bnd_dict
    /\ exc' = r.exc

\* The variables hold the state r.
Holds(r) ==
    /\ entities = r.entities /\ volumes = r.volumes /\ phys = r.phys
    /\ first_layer = r.first_layer
    /\ bottom_surface = r.bottom_surface /\ top_surface = r.top_surface
    /\ layer_counter = r.layer_counter /\ s_counter = r.s_counter
    /\ dot_counter = r.dot_counter /\ field_counter = r.field_counter
    /\ dot_tag = r.dot_tag /\ dot_volume = r.dot_volume
    /\ vol_entities = r.vol_entities /\ vol_entities_top = r.vol_entities_top
    /\ material_dict = r.material_dict /\ bnd_dict = r.bnd_dict
    /\ exc = r.exc

\* One call: the state it ends in, what was called, and the state it started in.
\* calls counts the calls of the kind, the new_layer calls that returned
\* (layer_ok), those of them with dot_region (layer_dot), and the new_layer calls
\* that returned since the last call of any other kind or outcome (run).
Call(r, op, kind) ==
    LET layered == kind = "layer" /\ r.exc = NoExc
    IN  /\ Becomes(r)
        /\ last' = op
        /\ pre' = Cur
        /\ calls' = [k \in DOMAIN calls |->
              CASE k = kind -> calls[k] + 1
                [] k = "layer_ok" -> calls[k] + (IF layered THEN 1 ELSE 0)
                [] k = "layer_dot" -> calls[k] + (IF layered /\ op.dot_region THEN 1 ELSE 0)
                [] k = "run" -> IF layered THEN calls[k] + 1 ELSE 0
                [] OTHER -> calls[k]]
        /\ base' = IF layered THEN base ELSE r.vol_entities
        /\ UNCHANGED parser

\* ----------------------------------------------------------------- inputs
\* Layouts the constructor opens: without a surface, one surface, two apart,
\* two overlapping.
Layouts == {<<>>, <<{1, 2}>>, <<{1}, {2}>>, <<{1, 2}, {2, 3}>>}
\* Footprints of dot rectangles.
DotRects == {{1}, {1, 2}}
MeshSizes == {None}
LayerLabels == {None, "cap"}
DotLabels == {[t |-> "None", v |-> <<>>], [t |-> "str", v |-> "qd"],
              [t |-> "list", v |-> <<"qd0", "qd1">>]}
Materials == {"GaAs"}
\* A name argument: one string, or a list of strings.
Str(n) == [single |-> TRUE, name |-> n]
Lst(ns) == [single |-> FALSE, names |-> ns]
\* Boundary conditions passed to a call: none, or a type with its parameters.
NoBnd == [type |-> None, params |-> <<>>]
Bnds == {NoBnd, [type |-> "gate", params |-> <<1>>]}

\* new_layer's arguments while a device is built up layer by layer.
\* A dot label is only read with dot_region.
BuildLayers ==
    [label : LayerLabels, dot_region : {FALSE}, dot_label : {[t |-> "None", v |-> <<>>]},
     material : Materials, label_sides : BOOLEAN]
    \cup [label : {None}, dot_region : {TRUE}, dot_label : DotLabels,
          material : Materials, label_sides : {FALSE}]
\* relabel_surface's arguments while a device is built up: merging and renaming.
BuildRelabels ==
    {[old_label |-> Str("surf1"), new_label |-> "gate", bnd |-> NoBnd],
     [old_label |-> Lst(<<"surf1", "surf2">>), new_label |-> "gate",
      bnd |-> [type |-> "gate", params |-> <<1>>]]}

NoCalls ==
    [k \in {"layer", "dot", "label", "setup", "layer_ok", "layer_dot", "run"} |-> 0]

Init ==
    \E layout \in Layouts :
        /\ Holds(setup_top_layer(Constructed(layout)))
        /\ last = [op |-> "init"]
        /\ pre = Constructed(layout)
        /\ calls = NoCalls
        /\ base = setup_top_layer(Constructed(layout)).vol_entities
        /\ parser = NoParser

\* ---------------------------------------------------------------- actions
NewDotRectangle ==
    /\ calls["dot"] < MaxDots
    /\ \E rect \in DotRects, h \in MeshSizes :
          Call(new_dot_rectangle(Cur, rect, h),
               [op |-> "new_dot_rectangle", rect |-> rect, h |-> h], "dot")

NewLayer(inputs) ==
    /\ calls["layer"] < MaxLayers
    /\ \E a \in inputs :
          Call(new_layer(Cur, a.label, a.dot_region, a.dot_label, a.material, 0, 0,
                         a.label_sides),
               [op |-> "new_layer", label |-> a.label, dot_region |-> a.dot_region,
                dot_label |-> a.dot_label, material |-> a.material,
                label_sides |-> a.label_sides],
               "layer")

RelabelSurface(inputs) ==
    /\ calls["label"] < MaxLabelOps
    /\ \E a \in inputs :
          Call(relabel_surface(Cur, a.old_label, a.new_label, a.bnd.params, a.bnd.type),
               [op |-> "relabel_surface", old_label |-> a.old_label,
                new_label |-> a.new_label, bnd |-> a.bnd],
               "label")

\* The sequences of one or two of the tags, in ascending order.
TagLists(tags) ==
    {<<a>> : a \in tags} \cup {<<p[1], p[2]>> : p \in {q \in tags \X tags : q[1] < q[2]}}

\* The surfaces the tracker holds as the device's top or bottom.
TrackedSurfaces ==
    {top_surface[i][2] : i \in 1..Len(top_surface)}
        \cup {bottom_surface[i][2] : i \in 1..Len(bottom_surface)}

LabelSurface(names, bnds) ==
    /\ calls["label"] < MaxLabelOps
    /\ \E ent_tags \in TagLists(TrackedSurfaces), new_name \in names, bnd \in bnds :
          Call(label_surface(Cur, ent_tags, new_name, bnd.type, bnd.params),
               [op |-> "label_surface", dim |-> 2, ent_tags |-> ent_tags,
                new_name |-> new_name, bnd |-> bnd],
               "label")

LabelVolume(names) ==
    /\ calls["label"] < MaxLabelOps
    /\ \E ent_tags \in TagLists(DOMAIN volumes), new_name \in names,
          material \in Materials :
          Call(label_volume(Cur, ent_tags, new_name, material, 0, 0),
               [op |-> "label_volume", dim |-> 3, ent_tags |-> ent_tags,
                new_name |-> new_name, material |-> material],
               "label")

SplitSurface(names) ==
    /\ calls["label"] < MaxLabelOps
    /\ \E name \in names :
          Call(split_surface(Cur, name), [op |-> "split_surface", name |-> name], "label")

LabelBottom(names, bnds) ==
    /\ calls["label"] < MaxLabelOps
    /\ \E label \in names, bnd \in bnds :
          Call(label_bottom(Cur, label, bnd.params, bnd.type),
               [op |-> "label_bottom", label |-> label, bnd |-> bnd], "label")

Next == NewDotRectangle \/ NewLayer(BuildLayers) \/ RelabelSurface(BuildRelabels)

Spec == Init /\ [][Next]_vars

\* ------------------------------------------------- naming a finished mask
\* new_layer's arguments while regions are named: a plain layer.
PlainLayers ==
    [label : {None}, dot_region : {FALSE}, dot_label : {[t |-> "None", v |-> <<>>]},
     material : Materials, label_sides : {FALSE}]
\* relabel_surface's arguments: a name, a missing name or a list; to a new name,
\* to a name in use, or to None.
NameRelabels ==
    [old_label : {Str("surf1"), Str("surf2"), Str("gate"), Lst(<<"surf1", "surf2">>)},
     new_label : {"gate", "surf1", None},
     bnd : Bnds \cup {[type |-> "ohmic", params |-> <<0>>]}]

NextLabel ==
    \/ NewLayer(PlainLayers)
    \/ RelabelSurface(NameRelabels)
    \/ LabelSurface({"gate", "surf2"}, Bnds)
    \/ LabelVolume({"core", "volume1"})
    \/ SplitSurface({"gate"})
    \/ LabelBottom({"back"}, Bnds)

SpecLabel == Init /\ [][NextLabel]_vars

\* ------------------------------------------------ setting the mask up again
SetupTopLayer ==
    /\ calls["setup"] < MaxSetups
    /\ Call(setup_top_layer(Cur), [op |-> "setup_top_layer"], "setup")

\* The names set_dot_region_from_surfs is called with: a name, two names, a
\* name no surface has.
DotSurfs == {Str("surf1"), Lst(<<"surf1", "surf2">>), Str("gate")}

SetDotRegionFromSurfs ==
    /\ calls["dot"] < MaxDots
    /\ \E surfs \in DotSurfs, h \in MeshSizes :
          Call(set_dot_region_from_surfs(Cur, surfs, h),
               [op |-> "set_dot_region_from_surfs", surfs |-> surfs, h |-> h], "dot")

\* The dot layers asked of new_layer: a layer that holds the dots or not.
DotLayers ==
    [label : {None}, dot_region : BOOLEAN, dot_label : {[t |-> "None", v |-> <<>>]},
     material : Materials, label_sides : {FALSE}]

NextDots ==
    \/ NewDotRectangle
    \/ SetDotRegionFromSurfs
    \/ SetupTopLayer
    \/ NewLayer(DotLayers)

SpecDots == Init /\ [][NextDots]_vars

NextSetup ==
    \/ NewDotRectangle
    \/ SetupTopLayer
    \/ NewLayer(PlainLayers)
    \/ RelabelSurface(BuildRelabels)

SpecSetup == Init /\ [][NextSetup]_vars

\* ------------------------------------------------------ parsing a mask file
\* The UNITS lines: (1000000.0, 1.0), (1e-07, 1e-13) whose products need
\* rounding, and (1.0, 1.0) whose factors do not match; or no UNITS line.
UnitsLines ==
    {<<>>, <<[t |-> "UNITS", mum |-> 6, m |-> 0]>>,
     <<[t |-> "UNITS", mum |-> -7, m |-> -13]>>,
     <<[t |-> "UNITS", mum |-> 0, m |-> 0]>>}

\* The LAYER lines before an element: none, "LAYER 1;", "LAYER 2;", "LAYER 12;"
\* and "LAYER 1" with nothing after the identifier.
LayerLines ==
    {<<>>} \cup {<<[t |-> "LAYER", id |-> a[1], tail |-> a[2]]>> :
                    a \in {<<<<"1">>, <<";">>>>, <<<<"2">>, <<";">>>>,
                           <<<<"1", "2">>, <<";">>>>, <<<<"1">>, <<>>>>}}

Pt(x, y, pad) == [x |-> x, y |-> y, pad |-> pad]

\* The coordinates of an element: four corners, four corners and the first
\* again, three corners and the first again written with a leading blank, one
\* point.
PointLists ==
    {<<Pt(0, 0, 0), Pt(7, 0, 0), Pt(7, 7, 0), Pt(0, 7, 0)>>,
     <<Pt(0, 0, 0), Pt(7, 0, 0), Pt(7, 7, 0), Pt(0, 7, 0), Pt(0, 0, 0)>>,
     <<Pt(0, 0, 0), Pt(7, 0, 0), Pt(7, 7, 0), Pt(0, 0, 1)>>,
     <<Pt(4, 4, 0)>>}

\* The line that ends an element's coordinates: ENDEL, or a line of another
\* kind.
EndLines == {<<[t |-> "ENDEL"]>>, <<[t |-> "OTHER"]>>}

\* The lines of an element: its LAYER line if any, a BOUNDARY line, the XY line
\* with the first coordinate, the other coordinates, the end.
ElementLines(layer, pts, end) ==
    layer \o <<[t |-> "OTHER"]>> \o <<[t |-> "XY", pt |-> pts[1]]>>
          \o [i \in 1..(Len(pts) - 1) |-> [t |-> "PT", pt |-> pts[i + 1]]] \o end

Elements == {ElementLines(a, b, c) : a \in LayerLines, b \in PointLists, c \in EndLines}

\* The bodies of up to n elements.
RECURSIVE Bodies(_)
Bodies(n) ==
    IF n = 0 THEN {<<>>}
    ELSE Bodies(n - 1) \cup {b \o e : b \in Bodies(n - 1), e \in Elements}

\* The mask files read.
Files == {<<[t |-> "OTHER"]>> \o u \o b : u \in UnitsLines, b \in Bodies(MaxElems)}

\* The mesh densities h the parser is constructed with.
MeshDensities == {10, 2}

\* The variables of the device.
dvars == <<entities, volumes, phys, first_layer, bottom_surface, top_surface,
           layer_counter, s_counter, dot_counter, field_counter, dot_tag, dot_volume,
           vol_entities, vol_entities_top, material_dict, bnd_dict, exc, last, pre, calls,
           base>>

\* Parser(file_path, outfile, h) in DeviceGenerator.__init__, before the
\* engine is started.
InitParse ==
    /\ Holds(Constructed(<<>>))
    /\ last = [op |-> "parse"]
    /\ pre = Constructed(<<>>)
    /\ calls = NoCalls
    /\ base = <<>>
    /\ \E f \in Files, h \in MeshDensities : parser = NewParser(f, h)

Parsing(pc) == parser.pc = pc /\ parser.exc = NoExc

CreateHeader ==
    /\ Parsing("header")
    /\ parser' = create_header(parser)
    /\ UNCHANGED dvars

ParsePointsLine ==
    /\ Parsing("points")
    /\ parser' = parse_points_line(parser)
    /\ UNCHANGED dvars

ParseElementLine ==
    /\ Parsing("element")
    /\ parser' = parse_element_line(parser)
    /\ UNCHANGED dvars

NextParse == CreateHeader \/ ParsePointsLine \/ ParseElementLine

SpecParse == InitParse /\ [][NextParse]_vars

\* ------------------------------------------------------- lineages (C1, C2)
\* The frame's entities all have dimension dim.
FrameOfDim(frame, dim) == \A i \in 1..Len(frame) : frame[i][1] = dim

\* C1: after a run of N new_layer calls that returned, with no other call in
\* between, every name that was a key of vol_entities when the run began keeps
\* its frames and has gained N volume frames and N surface frames in turn, each
\* volume frame and the surface frame after it as long as the surface frame
\* before; so a name that began with its one surface frame has N+1 surface
\* frames and N volume frames.
C1_LayerFrames ==
    \A k \in Range(DictKeys(base)) :
        /\ DictHas(vol_entities, k)
        /\ LET old == DictGet(base, k)
               now == DictGet(vol_entities, k)
               N == calls["run"]
           IN  /\ Len(now) = Len(old) + 2 * N
               /\ SubSeq(now, 1, Len(old)) = old
               /\ \A j \in 1..N :
                     /\ FrameOfDim(now[Len(old) + 2 * j - 1], 3)
                     /\ FrameOfDim(now[Len(old) + 2 * j], 2)
                     /\ Len(now[Len(old) + 2 * j - 1]) = Len(now[Len(old) + 2 * j - 2])
                     /\ Len(now[Len(old) + 2 * j]) = Len(now[Len(old) + 2 * j - 2])
               /\ Len(old) = 1 =>
                     /\ Cardinality({j \in 1..Len(now) : j % 2 = 1}) = N + 1
                     /\ Cardinality({j \in 1..Len(now) : j % 2 = 0}) = N

\* Two layers were built in a row under a name that groups two surfaces.
C1_Witness ==
    /\ calls["run"] >= 2
    /\ \E k \in Range(DictKeys(base)) :
          /\ Len(DictGet(base, k)) = 1
          /\ Len(DictGet(base, k)[1]) >= 2
          /\ Len(DictGet(vol_entities, k)) = 2 * calls["run"] + 1

\* C2: in every lineage of vol_entities the i-th volume of a volume frame is the
\* volume the engine extruded from the i-th surface of the frame before it, and
\* the i-th surface of the frame after it is the surface that extrusion made
\* opposite to the extruded one.
C2_IndexAligned ==
    \A k \in Range(DictKeys(vol_entities)) :
        LET lin == DictGet(vol_entities, k)
        IN  \A j \in 1..Len(lin) : j % 2 = 0 =>
               /\ j + 1 <= Len(lin)
               /\ Len(lin[j]) = Len(lin[j - 1])
               /\ Len(lin[j + 1]) = Len(lin[j])
               /\ \A i \in 1..Len(lin[j]) :
                     /\ lin[j][i][1] = 3
                     /\ lin[j][i][2] \in DOMAIN volumes
                     /\ Surf(volumes[lin[j][i][2]].src) = lin[j - 1][i]
                     /\ Surf(volumes[lin[j][i][2]].far) = lin[j + 1][i]

\* A name that groups two surfaces has been carried through two layers.
C2_Witness ==
    \E k \in Range(DictKeys(vol_entities)) :
        /\ Len(DictGet(vol_entities, k)) >= 5
        /\ Len(DictGet(vol_entities, k)[1]) >= 2

\* ----------------------------------------------------------- dots (C3-C5)
\* The volumes the last call created.
NewVolumes == DOMAIN volumes \ DOMAIN pre.volumes

\* The new volumes whose boundary meets the frame the dot had last before the call.
Column(i) ==
    LET dot == pre.dot_tag[i]
        below == {Surf(tg) : tg \in Range(dot[Len(dot)])}
    IN  {v \in NewVolumes : getBoundary(Cur, Volm(v)) \cap below # {}}

\* C3: for every dot a new_layer call has got to, the volumes the call put in
\* the dot's column are the new volumes whose boundary meets the surface frame
\* the dot had last before the call: the frame the call appends to the dot's
\* surfaces holds the far surfaces of exactly those volumes, and with dot_region
\* the frame it appends to the dot's volumes holds exactly those volumes.
C3_ColumnByAdjacency ==
    last.op = "new_layer" =>
        \A i \in 1..Len(pre.dot_tag) :
            /\ Len(dot_tag[i]) > Len(pre.dot_tag[i]) =>
                  Range(dot_tag[i][Len(dot_tag[i])]) = {volumes[v].far : v \in Column(i)}
            /\ Len(dot_volume[i]) > Len(pre.dot_volume[i]) =>
                  Range(dot_volume[i][Len(dot_volume[i])]) = Column(i)

\* A second layer was built with dot_region under two dots, one of them with a
\* column of two volumes that leaves a new volume out.
C3_Witness ==
    /\ last.op = "new_layer" /\ exc = NoExc /\ last.dot_region
    /\ Len(pre.dot_tag) = 2
    /\ \E i \in 1..2 :
          /\ Len(pre.dot_tag[i]) >= 2
          /\ Cardinality(Column(i)) = 2
          /\ Column(i) # NewVolumes
          /\ Range(dot_volume[i][Len(dot_volume[i])]) = Column(i)

\* All the volumes of dot i's column, over its volume frames.
ColumnVolumes(i) == UNION {Range(dot_volume[i][f]) : f \in 1..Len(dot_volume[i])}

\* The groups of the layers' volumes: the volume groups that are no dot's frame.
LayerGroups ==
    {g \in Range(phys) : g.dim = 3 /\ \A i \in 1..Len(dot_volume) :
                            \A f \in 1..Len(dot_volume[i]) : g.ents # dot_volume[i][f]}

\* C4: when all the K new_layer calls made so far returned and passed
\* dot_region, every dot declared before the first of them has a volume lineage
\* of K frames, and no volume of its column is in a layer's volume group or in
\* another dot's column.
C4_ColumnsDisjoint ==
    (calls["layer"] >= 1 /\ calls["layer_dot"] = calls["layer"]) =>
        \A i \in 1..(dot_counter - 1) :
            /\ Len(dot_volume[i]) = calls["layer"]
            /\ \A g \in LayerGroups : ColumnVolumes(i) \cap Range(g.ents) = {}
            /\ \A j \in 1..Len(dot_volume) :
                  j # i => ColumnVolumes(i) \cap ColumnVolumes(j) = {}

\* The groups of the dimension the last call created.
NewGroups(dim) ==
    {g \in Range(phys) : g.dim = dim
        /\ \A h \in Range(pre.phys) : h.dim = dim => h.tag # g.tag}

\* C5: a new_layer call that returns appends one surface frame to every dot's
\* surface lineage, the far surfaces of the dot's column volumes, with
\* dot_region or without. With dot_region it appends one volume frame to every
\* dot's volume lineage and creates a volume group of that frame's volumes,
\* named by the i-th label passed or, with none, dot{i}-{layer_counter}, so that
\* the call creates one volume group per dot and the layer's; without dot_region
\* the volume lineages stay as they were and the layer's volume group is the only
\* one created.
C5_DotFramesAndGroups ==
    (last.op = "new_layer" /\ exc = NoExc) =>
        /\ Len(dot_tag) = Len(pre.dot_tag) /\ Len(dot_volume) = Len(pre.dot_volume)
        /\ Cardinality(NewGroups(3)) = IF last.dot_region THEN Len(dot_tag) + 1 ELSE 1
        /\ \A i \in 1..Len(pre.dot_tag) :
              /\ Len(dot_tag[i]) = Len(pre.dot_tag[i]) + 1
              /\ SubSeq(dot_tag[i], 1, Len(pre.dot_tag[i])) = pre.dot_tag[i]
              /\ Range(dot_tag[i][Len(dot_tag[i])]) = {volumes[v].far : v \in Column(i)}
              /\ IF last.dot_region
                 THEN /\ Len(dot_volume[i]) = Len(pre.dot_volume[i]) + 1
                      /\ SubSeq(dot_volume[i], 1, Len(pre.dot_volume[i])) = pre.dot_volume[i]
                      /\ \E g \in NewGroups(3) :
                            /\ g.ents = dot_volume[i][Len(dot_volume[i])]
                            /\ g.name = IF last.dot_label.t = "None"
                                        THEN "dot" \o ToStr(i - 1) \o "-"
                                                   \o ToStr(pre.layer_counter)
                                        ELSE DotLabelList(last.dot_label)[i]
                 ELSE dot_volume[i] = pre.dot_volume[i]

\* A layer was built with dot_region and default names under two dots whose
\* columns differ, after a layer built without dot_region.
C5_Witness ==
    /\ last.op = "new_layer" /\ exc = NoExc
    /\ last.dot_region /\ last.dot_label.t = "None"
    /\ Len(dot_tag) = 2
    /\ Len(dot_tag[1]) = 3 /\ Len(dot_volume[1]) = 1
    /\ dot_volume[1][1] # <<>> /\ dot_volume[2][1] # dot_volume[1][1]
    /\ \E g \in NewGroups(3) : g.name = "dot1-2" /\ g.ents = dot_volume[2][1]

\* ------------------------------------------------- label_entity (C6, C7)
\* The last call was label_entity, through label_surface or label_volume.
Labelled == last.op \in {"label_surface", "label_volume"}

\* The groups of the dimension in a state, and those of them carrying a name.
GroupsOf(s, dim) == {g \in Range(s.phys) : g.dim = dim}
NamedGroupsOf(s, dim) == {g \in GroupsOf(s, dim) : g.name # ""}

\* The groups that held one of the entities labelled, before the call.
HeldGroups == {g \in GroupsOf(pre, last.dim) : Range(g.ents) \cap Range(last.ent_tags) # {}}

\* Every entity of a named group before the call is in a named group after it,
\* and the members of a named group that held one of the entities labelled, other
\* than those labelled, are in a group of that name.
SurvivorsNamed ==
    /\ \A g \in NamedGroupsOf(pre, last.dim) : \A e \in Range(g.ents) :
          \E h \in NamedGroupsOf(Cur, last.dim) : e \in Range(h.ents)
    /\ \A g \in HeldGroups : g.name # "" =>
          \A e \in Range(g.ents) \ Range(last.ent_tags) :
              \E h \in GroupsOf(Cur, last.dim) : h.name = g.name /\ e \in Range(h.ents)

C7_NameBindsTags ==
    Labelled =>
        \E g \in GroupsOf(Cur, last.dim) :
            /\ g.name = last.new_name /\ g.ents = last.ent_tags
            /\ \A h \in GroupsOf(Cur, last.dim) : h.name = last.new_name => h = g

\* ------------------------------------------------ relabel_surface (C8-C10)
\* relabel_surface returned from relabelling to a name.
Relabelled == last.op = "relabel_surface" /\ exc = NoExc /\ last.new_label # None

\* The group relabel_surface finds under a name: the first surface group carrying it.
FoundGroups(n) ==
    {g \in GroupsOf(pre, 2) : g.name = n
        /\ \A h \in GroupsOf(pre, 2) : h.name = n => g.tag <= h.tag}

\* The surfaces of the groups found under the old names.
OldSurfaces ==
    UNION {Range(g.ents) : g \in UNION {FoundGroups(n) : n \in Range(NamesOf(last.old_label))}}

\* C8: after relabel_surface(old_names, new_name) with a name for new_name, no
\* surface group carries an old name other than new_name, and one surface group
\* carries new_name, its members the union of the old groups' members; also when
\* new_name is one of the old names.
C8_OneGroupUnderNewName ==
    Relabelled =>
        /\ \A n \in Range(NamesOf(last.old_label)) \ {last.new_label} :
              \A g \in GroupsOf(Cur, 2) : g.name # n
        /\ \E g \in GroupsOf(Cur, 2) :
              /\ g.name = last.new_label /\ Range(g.ents) = OldSurfaces
              /\ \A h \in GroupsOf(Cur, 2) : h.name = last.new_label => h = g

\* C9: after relabel_surface(old_name, new_name) to another name, bnd_dict has
\* no entry under old_name, and the entry it had there is under new_name unless
\* the call passed a boundary condition.
C9_BndEntryMoved ==
    (Relabelled /\ last.old_label.single /\ last.old_label.name # last.new_label) =>
        /\ ~DictHas(bnd_dict, last.old_label.name)
        /\ (DictHas(pre.bnd_dict, last.old_label.name) /\ last.bnd.type = None) =>
              /\ DictHas(bnd_dict, last.new_label)
              /\ DictGet(bnd_dict, last.new_label)
                    = DictGet(pre.bnd_dict, last.old_label.name)

\* new_name's lineage in vol_entities is the one frame of the old groups' surfaces.
FreshLineage ==
    /\ DictHas(vol_entities, last.new_label)
    /\ Len(DictGet(vol_entities, last.new_label)) = 1
    /\ FrameOfDim(DictGet(vol_entities, last.new_label)[1], 2)
    /\ {e[2] : e \in Range(DictGet(vol_entities, last.new_label)[1])} = OldSurfaces

\* C10 as stated: after relabel_surface(old_names, new_name), none of the old
\* names is a key of vol_entities and new_name's lineage is one frame, the old
\* groups' surfaces.
C10_NoOldKeys ==
    Relabelled =>
        /\ \A n \in Range(NamesOf(last.old_label)) : ~DictHas(vol_entities, n)
        /\ FreshLineage

\* C10 amended: none of the old names other than new_name is a key of
\* vol_entities, and new_name's lineage is one frame, the old groups' surfaces.
C10_NoOtherOldKeys ==
    Relabelled =>
        /\ \A n \in Range(NamesOf(last.old_label)) \ {last.new_label} :
              ~DictHas(vol_entities, n)
        /\ FreshLineage

\* Two names that had lineages through a layer were relabelled to a third.
C10_Witness ==
    /\ Relabelled
    /\ ~last.old_label.single
    /\ last.new_label \notin Range(NamesOf(last.old_label))
    /\ \A n \in Range(NamesOf(last.old_label)) :
          /\ DictHas(pre.vol_entities, n)
          /\ Len(DictGet(pre.vol_entities, n)) >= 3
          /\ FoundGroups(n) # {}
    /\ Cardinality(OldSurfaces) >= 2
    /\ Len(DictGet(vol_entities, last.new_label)) = 1
    /\ \A n \in Range(NamesOf(last.old_label)) : ~DictHas(vol_entities, n)

\* --------------------------------------- relabel_surface, again (C11-C13)
\* C11: relabel_surface(old_names, None) returns without an error, no surface
\* group carries one of the old names or is one of the groups that carried them,
\* and the old names are keys neither of bnd_dict nor of vol_entities.
C11_RemovedWithoutError ==
    (last.op = "relabel_surface" /\ last.new_label = None) =>
        /\ exc = NoExc
        /\ \A n \in Range(NamesOf(last.old_label)) :
              /\ \A g \in GroupsOf(Cur, 2) : g.name # n
              /\ \A g \in FoundGroups(n) :
                    \A h \in GroupsOf(Cur, 2) : h.tag # g.tag
              /\ ~DictHas(bnd_dict, n)
              /\ ~DictHas(vol_entities, n)

\* The entries of a dict under a key.
EntriesUnder(d, key) == {i \in 1..Len(d) : d[i].k = key}

\* C12: after relabel_surface(n, n, *params, bnd_type=t) with a type t, bnd_dict
\* has one entry for n, holding t and params, and its other entries are those it
\* had before the call.
C12_SelfRelabelOverwrites ==
    ( /\ Relabelled /\ last.old_label.single
      /\ last.old_label.name = last.new_label /\ last.bnd.type # None )
    => /\ Cardinality(EntriesUnder(bnd_dict, last.new_label)) = 1
       /\ DictGet(bnd_dict, last.new_label)
             = [type |-> last.bnd.type, params |-> last.bnd.params]
       /\ Range(DictKeys(bnd_dict)) = Range(DictKeys(pre.bnd_dict)) \cup {last.new_label}
       /\ Len(bnd_dict) = Cardinality(Range(DictKeys(bnd_dict)))
       /\ \A k \in Range(DictKeys(pre.bnd_dict)) \ {last.new_label} :
             DictGet(bnd_dict, k) = DictGet(pre.bnd_dict, k)

\* A name that had a boundary condition was relabelled to itself with another.
C12_Witness ==
    /\ Relabelled /\ last.old_label.single
    /\ last.old_label.name = last.new_label /\ last.bnd.type # None
    /\ DictHas(pre.bnd_dict, last.new_label)
    /\ DictGet(pre.bnd_dict, last.new_label).type # last.bnd.type
    /\ DictGet(bnd_dict, last.new_label).type = last.bnd.type

\* C13: after relabel_surface(old_names, new_name) with a name for new_name,
\* top_surface is what it was without the relabelled surfaces: none of them is
\* in it and the others are, in the order they had.
C13_TopSurfaceWithoutRelabelled ==
    Relabelled =>
        /\ top_surface = SelectSeq(pre.top_surface, LAMBDA e : e[2] \notin OldSurfaces)
        /\ \A e \in Range(top_surface) : e[2] \notin OldSurfaces

\* Two of the surfaces of the top were relabelled, and two others stay.
C13_Witness ==
    /\ Relabelled
    /\ Cardinality(OldSurfaces) = 2
    /\ \A e \in OldSurfaces : Surf(e) \in Range(pre.top_surface)
    /\ top_surface # <<>>
    /\ Len(top_surface) = Len(pre.top_surface) - 2


\* ------------------------------------------------- split_surface (C14, C15)
\* The group split_surface finds under its name, and that group's members.
SplitGroups == FoundGroups(last.name)
SplitMembers == UNION {Range(g.ents) : g \in SplitGroups}
Split == last.op = "split_surface" /\ exc = NoExc /\ SplitGroups # {}

\* The names name-0 .. name-(k-1).
PieceNames(name, k) == {name \o "-" \o ToStr(i) : i \in 0..(k - 1)}

\* The surface groups split_surface leaves alone: those before the call other
\* than the one found, a further group of the name left without a name.
SplitKept ==
    {g \in GroupsOf(pre, 2) : g \notin SplitGroups /\ g.name # last.name}
    \cup {[g EXCEPT !.name = ""] :
             g \in {h \in GroupsOf(pre, 2) : h \notin SplitGroups /\ h.name = last.name}}

\* The surface groups split_surface created.
SplitPieces == GroupsOf(Cur, 2) \ SplitKept

\* C14: split_surface(name) on a group of k >= 2 surfaces removes the group
\* named name and the vol_entities entry of name, and creates k groups of one
\* surface each, named name-0 .. name-(k-1), one for every former member; every
\* new name has a vol_entities lineage of one frame holding its one surface.
C14_SplitIntoSingletons ==
    (Split /\ Cardinality(SplitMembers) >= 2) =>
        LET k == Cardinality(SplitMembers)
        IN  /\ \A g \in GroupsOf(Cur, 2) : g.name # last.name
            /\ \A g \in SplitGroups : g \notin GroupsOf(Cur, 2)
            /\ ~DictHas(vol_entities, last.name)
            /\ ~DictHas(vol_entities_top, last.name)
            /\ SplitKept \subseteq GroupsOf(Cur, 2)
            /\ Cardinality(SplitPieces) = k
            /\ {g.name : g \in SplitPieces} = PieceNames(last.name, k)
            /\ \A g \in SplitPieces : Len(g.ents) = 1
            /\ {g.ents[1] : g \in SplitPieces} = SplitMembers
            /\ \A g \in SplitPieces :
                  /\ Cardinality(EntriesUnder(vol_entities, g.name)) = 1
                  /\ DictGet(vol_entities, g.name) = <<<<Surf(g.ents[1])>>>>
            /\ Range(DictKeys(vol_entities)) =
                  (Range(DictKeys(pre.vol_entities)) \ {last.name})
                  \cup PieceNames(last.name, k)

\* A group of two surfaces was split, while another surface group stays.
C14_Witness ==
    /\ Split
    /\ Cardinality(SplitMembers) = 2
    /\ Cardinality(SplitPieces) = 2
    /\ SplitKept # {}
    /\ DictHas(pre.vol_entities, last.name)

\* C15: split_surface(name) on a group of one surface changes nothing: the
\* groups and their names, vol_entities, vol_entities_top, bnd_dict and
\* material_dict are what they were, and no new name exists.
C15_SplitOfOneIsNoOp ==
    (Split /\ Cardinality(SplitMembers) = 1) =>
        /\ phys = pre.phys
        /\ vol_entities = pre.vol_entities
        /\ vol_entities_top = pre.vol_entities_top
        /\ bnd_dict = pre.bnd_dict
        /\ material_dict = pre.material_dict
        /\ {g.name : g \in Range(phys)} = {g.name : g \in Range(pre.phys)}
        /\ Range(DictKeys(vol_entities)) = Range(DictKeys(pre.vol_entities))

\* A group of one surface, with a registry entry, went through split_surface.
C15_Witness ==
    /\ Split
    /\ Cardinality(SplitMembers) = 1
    /\ DictHas(pre.vol_entities, last.name)
    /\ \E g \in SplitGroups : g.name = "gate"


\* ------------------------------------------------- setup_top_layer (C16-C18)
\* A call that went through setup_top_layer and returned: the constructor, a
\* direct call, new_dot_rectangle.
SetUp ==
    /\ last.op \in {"init", "setup_top_layer", "new_dot_rectangle"}
    /\ exc = NoExc

\* C16: after a setup_top_layer that returns, with n surfaces in the engine,
\* bottom_surface and top_surface are the engine's surfaces after the fragment,
\* the surface groups are n groups of one surface each named surf1..surfn, one
\* per surface and no earlier group or name left, and vol_entities has those n
\* keys and no other, each with a lineage of one frame holding its one surface.
C16_MaskSetUp ==
    SetUp =>
        LET surfaces == getEntities2(Cur)
            n == Len(surfaces)
        IN  /\ n = Cardinality(DOMAIN entities)
            /\ bottom_surface = surfaces
            /\ top_surface = surfaces
            /\ Len(phys) = n
            /\ \A i \in 1..n :
                  /\ phys[i].dim = 2
                  /\ phys[i].name = "surf" \o ToStr(i)
                  /\ phys[i].ents = <<surfaces[i][2]>>
            /\ \A i, j \in 1..n : phys[i].tag = phys[j].tag => i = j
            /\ Len(vol_entities) = n
            /\ \A i \in 1..n :
                  /\ vol_entities[i].k = "surf" \o ToStr(i)
                  /\ vol_entities[i].v = <<<<surfaces[i]>>>>

\* setup_top_layer was called on a mask of two surfaces or more, after a
\* relabelling had merged groups under another name.
C16_Witness ==
    /\ last.op = "setup_top_layer"
    /\ exc = NoExc
    /\ Cardinality(DOMAIN entities) >= 2
    /\ \E g \in GroupsOf(pre, 2) : g.name = "gate"
    /\ DictHas(pre.vol_entities, "gate")
    /\ Len(pre.top_surface) < Cardinality(DOMAIN entities)


\* The dots' footprints as setup_top_layer found them: those before the call,
\* and after them the rectangle new_dot_rectangle had just added.
FootprintCells(j) ==
    IF j <= Len(pre.dot_tag)
    THEN UNION {pre.entities[t] : t \in Range(pre.dot_tag[j][1]) \cap DOMAIN pre.entities}
    ELSE last.rect

\* The surfaces after the fragment that lie in a set of cells: the pieces the
\* surfaces covering those cells were cut into.
PiecesIn(cells) == {t \in DOMAIN entities : entities[t] \subseteq cells}

\* C17: when setup_top_layer fragments the surfaces again, every dot's
\* footprint becomes one frame, the surfaces the engine's fragment gives for the
\* dot's footprint surfaces before the fragment, each once; a dot whose
\* footprint surfaces all exist before the fragment does not end with an empty
\* footprint.
C17_FootprintsFollowFragment ==
    (SetUp /\ last.op # "init") =>
        /\ Len(dot_tag) = Len(pre.dot_tag) + (IF last.op = "new_dot_rectangle" THEN 1 ELSE 0)
        /\ \A j \in 1..Len(dot_tag) :
              /\ Len(dot_tag[j]) = 1
              /\ Range(dot_tag[j][1]) = PiecesIn(FootprintCells(j))
              /\ Cardinality(Range(dot_tag[j][1])) = Len(dot_tag[j][1])
              /\ UNION {entities[t] : t \in Range(dot_tag[j][1])} = FootprintCells(j)
              /\ ( j <= Len(pre.dot_tag)
                   /\ Range(pre.dot_tag[j][1]) \subseteq DOMAIN pre.entities
                   /\ pre.dot_tag[j][1] # <<>> ) => dot_tag[j][1] # <<>>

\* A dot whose footprint was two surfaces went through the fragment of a later
\* rectangle, which replaced one of the two.
C17_Witness ==
    /\ SetUp
    /\ last.op = "new_dot_rectangle"
    /\ \E j \in 1..Len(pre.dot_tag) :
          /\ Len(pre.dot_tag[j][1]) = 2
          /\ Len(dot_tag[j][1]) = 2
          /\ Range(dot_tag[j][1]) # Range(pre.dot_tag[j][1])


\* C18: setup_top_layer called after a new_layer call (first_layer is False)
\* fails with an error and leaves the engine's groups, bottom_surface,
\* top_surface, s_counter, vol_entities and the dots' registries as they were.
C18_SetupAfterLayerFails ==
    (last.op = "setup_top_layer" /\ ~pre.first_layer) =>
        /\ exc = "ValueError"
        /\ phys = pre.phys
        /\ entities = pre.entities
        /\ bottom_surface = pre.bottom_surface
        /\ top_surface = pre.top_surface
        /\ s_counter = pre.s_counter
        /\ vol_entities = pre.vol_entities
        /\ vol_entities_top = pre.vol_entities_top
        /\ dot_tag = pre.dot_tag
        /\ dot_volume = pre.dot_volume
        /\ dot_counter = pre.dot_counter

\* setup_top_layer was called on a device with a layer, a dot and a volume
\* group.
C18_Witness ==
    /\ last.op = "setup_top_layer"
    /\ ~pre.first_layer
    /\ exc # NoExc
    /\ pre.dot_tag # <<>>
    /\ GroupsOf(pre, 3) # {}
    /\ pre.layer_counter > 1


\* ------------------------------------------- calls out of order (C19, C20)
\* C19: new_dot_rectangle called after a new_layer call fails with the error of
\* setup_top_layer and changes nothing: dot_tag, dot_volume, dot_counter and
\* the engine's surfaces are after the call what they were before it.
C19_LateDotChangesNothing ==
    (last.op = "new_dot_rectangle" /\ ~pre.first_layer) =>
        /\ exc = "ValueError"
        /\ dot_tag = pre.dot_tag
        /\ dot_volume = pre.dot_volume
        /\ dot_counter = pre.dot_counter
        /\ entities = pre.entities

\* C20: label_bottom called before any new_layer call (first_layer is True)
\* fails with an error, creates no group and adds no bnd_dict entry.
C20_EarlyBottomFails ==
    (last.op = "label_bottom" /\ pre.first_layer) =>
        /\ exc = "ValueError"
        /\ phys = pre.phys
        /\ bnd_dict = pre.bnd_dict

\* label_bottom was called with a boundary condition on a mask without a layer.
C20_Witness ==
    /\ last.op = "label_bottom"
    /\ pre.first_layer
    /\ last.bnd.type # None
    /\ exc # NoExc
    /\ pre.bottom_surface # <<>>


\* --------------------------------------------------- new_layer, again (C21-C23)
\* C21: new_layer called while bottom_surface is empty is a caller's error: the
\* call raises, and does not return with an empty extrusion, an empty volume
\* group under the layer's name and a material entry.
C21_EmptyBottomRaises ==
    (last.op = "new_layer" /\ pre.bottom_surface = <<>>) => exc # NoExc


\* A new_layer call that returned.
Layered == last.op = "new_layer" /\ exc = NoExc

\* C22: after a new_layer call, bottom_surface is the list of the far surfaces
\* of the volumes the call created, one per volume in the volumes' order: it is
\* as long as the list of surfaces the call extruded, and the next new_layer
\* call extrudes those surfaces, each volume made from the surface at its place.
C22_BottomFollowsExtrusion ==
    Layered =>
        LET vols == SortedSeq(NewVolumes)
        IN  /\ Len(vols) = Len(pre.bottom_surface)
            /\ Len(bottom_surface) = Len(pre.bottom_surface)
            /\ \A i \in 1..Len(vols) :
                  /\ Surf(volumes[vols[i]].src) = pre.bottom_surface[i]
                  /\ bottom_surface[i] = Surf(volumes[vols[i]].far)
                  /\ bottom_surface[i][2] \in DOMAIN entities \ DOMAIN pre.entities

\* A second layer in a row was built under two surfaces or more.
C22_Witness ==
    /\ Layered
    /\ calls["run"] >= 2
    /\ Len(bottom_surface) >= 2
    /\ \A i \in 1..Len(pre.bottom_surface) :
          \E v \in DOMAIN pre.volumes : pre.bottom_surface[i] = Surf(pre.volumes[v].far)


\* The layer's name: the label passed or, with none, volume{layer_counter}.
LayerName ==
    IF last.label = None THEN "volume" \o ToStr(pre.layer_counter) ELSE last.label

\* The new volumes that are in no dot's volume lineage after the call.
FreeVolumes ==
    {v \in NewVolumes : \A i \in 1..Len(dot_volume) : v \notin ColumnVolumes(i)}

\* The layer's group among the groups the call created: the last one.
LayerGroup == phys[Len(phys)]

\* The call created a volume group for the layer, named by the label or
\* volume{layer_counter}, of the new volumes in no dot's lineage; material_dict
\* has the layer's entry and layer_counter went up by one.
LayerGroupNamed ==
    /\ LayerGroup \in NewGroups(3)
    /\ LayerGroup.name = LayerName
    /\ Range(LayerGroup.ents) = FreeVolumes
    /\ Len(LayerGroup.ents) = Cardinality(FreeVolumes)
    /\ Cardinality({g \in NewGroups(3) : g.name = LayerName}) = 1
    /\ Cardinality(EntriesUnder(material_dict, LayerName)) = 1
    /\ DictGet(material_dict, LayerName) =
          [material |-> last.material, pdoping |-> 0, ndoping |-> 0]
    /\ layer_counter = pre.layer_counter + 1

\* Every new volume is in a named volume group the call created.
NewVolumesGrouped ==
    \A v \in NewVolumes : \E g \in NewGroups(3) : g.name # "" /\ v \in Range(g.ents)

\* C23: a new_layer call creates one volume group for the layer, named by the
\* label passed or volume{layer_counter}, whose members are the new volumes in
\* no dot's volume lineage, records material_dict[label] and increments
\* layer_counter; with dot_region, the layer's group and the dots' groups of
\* the layer together put every new volume in one named volume group.
C23_LayerGroupAndPartition ==
    Layered =>
        /\ LayerGroupNamed
        /\ last.dot_region =>
              \A v \in NewVolumes :
                  Cardinality({g \in NewGroups(3) : g.name # "" /\ v \in Range(g.ents)}) = 1

\* The same with every new volume in a named volume group, one or more.
C23_LayerGroupAndCover ==
    Layered => (LayerGroupNamed /\ (last.dot_region => NewVolumesGrouped))


\* -------------------------------------------------- new_dot_rectangle (C24)
\* The names surf1 .. surfn.
GenericNames(n) == {"surf" \o ToStr(i) : i \in 1..n}

\* C24: a new_dot_rectangle call that returns (first_layer is True) adds one
\* tracked dot, with an empty volume lineage, and runs setup_top_layer again:
\* afterwards every tracked dot has one surface frame, and vol_entities holds
\* the generic names surfN and no other, each with a lineage of one frame.
C24_DotAdded ==
    (last.op = "new_dot_rectangle" /\ exc = NoExc) =>
        /\ pre.first_layer /\ first_layer
        /\ Len(dot_tag) = Len(pre.dot_tag) + 1
        /\ Len(dot_volume) = Len(pre.dot_volume) + 1
        /\ dot_counter = pre.dot_counter + 1
        /\ dot_volume[Len(dot_volume)] = <<>>
        /\ SubSeq(dot_volume, 1, Len(pre.dot_volume)) = pre.dot_volume
        /\ \A j \in 1..Len(dot_tag) : Len(dot_tag[j]) = 1
        /\ Range(dot_tag[Len(dot_tag)][1]) = PiecesIn(last.rect)
        /\ Range(DictKeys(vol_entities)) = GenericNames(Cardinality(DOMAIN entities))
        /\ Len(vol_entities) = Cardinality(DOMAIN entities)
        /\ \A i \in 1..Len(vol_entities) :
              /\ Len(vol_entities[i].v) = 1
              /\ Len(vol_entities[i].v[1]) = 1
              /\ vol_entities[i].v[1][1] \in Range(getEntities2(Cur))
        /\ {g.name : g \in GroupsOf(Cur, 2)} = GenericNames(Cardinality(DOMAIN entities))
        /\ bottom_surface = getEntities2(Cur)

\* A second dot was added after a relabelling had put another name in the
\* registry, and its rectangle cut a surface of the mask.
C24_Witness ==
    /\ last.op = "new_dot_rectangle" /\ exc = NoExc
    /\ Len(dot_tag) = 2
    /\ DictHas(pre.vol_entities, "gate")
    /\ Cardinality(DOMAIN entities) > Cardinality(DOMAIN pre.entities)


\* ------------------------------------------------- boundary conditions (C25)
\* C25: in every reachable state every key of bnd_dict is the name of a surface
\* group that exists: no entry stays under a name that was removed, renamed,
\* split or reset.
C25_BndKeysAreNames ==
    \A k \in Range(DictKeys(bnd_dict)) : \E g \in GroupsOf(Cur, 2) : g.name = k


\* ------------------------------------------------------ gds_parser (C26-C30)
\* parse has returned.
Parsed == parser.pc = "closed" /\ parser.exc = NoExc


\* The positions in the output of the statements of a kind.
Emitted(kind) == {i \in 1..Len(parser.out) : parser.out[i].k = kind}

\* The statements of a kind written for the element whose Curve Loop is at
\* position j: those after the Plane Surface before it, if any, and before j.
ElementStmts(kind, j) ==
    LET start == SetMax({i \in Emitted("Plane Surface") : i < j})
    IN  SelectSeq(SubSeq(parser.out, start + 1, j - 1), LAMBDA s : s.k = kind)

\* C26: the curve loop emitted for an element is closed: an element with N
\* points emitted has N Line statements, N-1 of them joining point i to point
\* i+1 of the element and the last joining its last point to its first, and the
\* Curve Loop lists those N lines and no line of another element.
C26_LoopsClosed ==
    \A j \in Emitted("Curve Loop") :
        LET pts == ElementStmts("Point", j)
            lns == ElementStmts("Line", j)
            N == Len(pts)
        IN  /\ N >= 1
            /\ Len(lns) = N
            /\ \A i \in 1..(N - 1) : lns[i].a = pts[i].id /\ lns[i].b = pts[i + 1].id
            /\ lns[N].a = pts[N].id /\ lns[N].b = pts[1].id
            /\ parser.out[j].lines = [i \in 1..N |-> lns[i].id]
            /\ \A i \in Emitted("Line") : i < j =>
                  (parser.out[i].id \in Range(parser.out[j].lines)
                      <=> parser.out[i] \in Range(lns))

\* A file of two elements was parsed, the second of four points.
C26_Witness ==
    /\ Parsed
    /\ Cardinality(Emitted("Curve Loop")) = 2
    /\ \E j \in Emitted("Curve Loop") :
          /\ parser.out[j].id = 2
          /\ Len(ElementStmts("Point", j)) = 4
          /\ Len(parser.out[j].lines) = 4


\* The Boolean-fragment statements written, in order.
Fragments == SelectSeq(parser.out, LAMBDA s : s.k = "BooleanFragments")

\* C27: when parse has processed the elements of a mask with L distinct layer
\* identifiers, it has emitted L-1 Boolean-fragment statements, one per pair of
\* layer identifiers adjacent in ascending order, in ascending order, each
\* listing the lower layer's identifiers and then the next layer's.
C27_FragmentsPerLayerPair ==
    (Parsed /\ parser.layers # <<>>) =>
        LET l == SortedKeys(parser.layers)
        IN  /\ Len(Fragments) = Len(l) - 1
            /\ \A i \in 1..(Len(l) - 1) :
                  Fragments[i].surfaces =
                      DictGet(parser.layers, l[i]) \o DictGet(parser.layers, l[i + 1])


\* The positions of the geometry statements written.
Geometry ==
    Emitted("Point") \cup Emitted("Line") \cup Emitted("Curve Loop")
        \cup Emitted("Plane Surface") \cup Emitted("BooleanFragments")

\* The UNITS lines of the file.
UnitsIn(file) == {i \in 1..Len(file) : file[i].t = "UNITS"}

\* C28: a UNITS record whose two factors do not match (the first is not the
\* second times 1e6) makes the parser raise an error, and no Point, Line, Curve
\* Loop, Plane Surface or fragment statement is emitted for that file.
C28_UnitsMismatchRaises ==
    ( /\ UnitsIn(parser.file) # {}
      /\ LET u == parser.file[SetMin(UnitsIn(parser.file))] IN u.mum # u.m + 6
      /\ parser.out # <<>> )
    => (parser.exc # NoExc /\ Geometry = {})

\* C29: a mask file without a UNITS record makes the parser fail before a
\* LAYER, XY or ENDEL record is turned into output: no geometry statement is
\* emitted.
C29_NoUnitsFails ==
    UnitsIn(parser.file) = {} =>
        /\ Geometry = {}
        /\ parser.layers = <<>>
        /\ parser.pc = "header"
        /\ parser.out # <<>> =>
              /\ parser.exc = "UnboundLocalError"
              /\ parser.pos = Len(parser.file) + 1

\* _create_header ran on a file of two elements with their LAYER lines and no
\* UNITS line.
C29_Witness ==
    /\ UnitsIn(parser.file) = {}
    /\ parser.out # <<>>
    /\ parser.exc # NoExc
    /\ Cardinality({i \in 1..Len(parser.file) : parser.file[i].t = "XY"}) = 2
    /\ Cardinality({i \in 1..Len(parser.file) : parser.file[i].t = "LAYER"}) = 2
    /\ Cardinality({i \in 1..Len(parser.file) : parser.file[i].t = "ENDEL"}) = 2


\* An element was just ended: the inner loop read its ENDEL line and wrote it.
ElementEnded ==
    /\ parser.pc = "points" /\ parser.exc = NoExc
    /\ parser.pos > 1
    /\ parser.file[parser.pos - 1].t = "ENDEL"
    /\ Emitted("Curve Loop") # {}

\* The coordinate records of the element just ended: the XY line's, and the
\* lines after it up to ENDEL.
EndedCoords ==
    LET xy == SetMax({i \in 1..(parser.pos - 1) : parser.file[i].t = "XY"})
    IN  [i \in 1..(parser.pos - 1 - xy) |-> parser.file[xy + i - 1].pt]

\* The Point statements written for the element just ended.
EndedPoints == ElementStmts("Point", SetMax(Emitted("Curve Loop")))

\* C30 as stated: for every element the number of Point statements emitted is
\* the number of its coordinate records, the XY line's and every coordinate
\* line up to ENDEL, a last coordinate that repeats the first one included.
C30_PointPerCoordinate ==
    ElementEnded => Len(EndedPoints) = Len(EndedCoords)

\* The coordinate records of the element just ended that are written: the
\* first, and those after it whose text is not the first one's.
KeptCoords ==
    <<EndedCoords[1]>>
        \o SelectSeq(Tail(EndedCoords), LAMBDA c : c # EndedCoords[1])

\* C30: for every element the Point statements emitted are those of the XY
\* line's coordinate and of every coordinate line up to ENDEL whose text is
\* not the XY line's coordinate text, in order; a coordinate line that repeats
\* that text is passed over, and one that repeats the coordinate in another
\* form is written.
C30_PointPerDistinctCoordinate ==
    ElementEnded =>
        /\ Len(EndedPoints) = Len(KeptCoords)
        /\ \A i \in 1..Len(KeptCoords) :
              /\ EndedPoints[i].x = Scaled(KeptCoords[i].x, parser.units_m)
              /\ EndedPoints[i].y = Scaled(KeptCoords[i].y, parser.units_m)

\* An element of five coordinate records, the last repeating the first, was
\* ended with four points written.
C30_Witness ==
    /\ ElementEnded
    /\ Len(EndedCoords) = 5
    /\ EndedCoords[5] = EndedCoords[1]
    /\ Len(EndedPoints) = 4
    /\ parser.units_m = 0


\* ------------------------------------------------------ gds_parser (C31-C34)
\* The statements of a kind written, in order.
StmtsOf(kind) == SelectSeq(parser.out, LAMBDA s : s.k = kind)

\* The identifiers of the statements of a kind are 1, 2, 3, ... in the order
\* written, and the kind's counter is one more than their number.
Counted(kind, counter) ==
    /\ \A i \in 1..Len(StmtsOf(kind)) : StmtsOf(kind)[i].id = i
    /\ counter = Len(StmtsOf(kind)) + 1

\* C31: over any sequence of records each of the four kinds of statement
\* (Point, Line, Curve Loop, Plane Surface) has a counter of its own: the
\* identifiers emitted for a kind are 1, 2, 3, ... in the order emitted, none
\* repeated and none left out, and a statement of one kind does not advance
\* the counter of another.
C31_FourCounters ==
    /\ Counted("Point", parser.pt_counter)
    /\ Counted("Line", parser.line_counter)
    /\ Counted("Curve Loop", parser.cl_counter)
    /\ Counted("Plane Surface", parser.surf_counter)

\* Two elements with different numbers of points were written.
C31_Witness ==
    /\ Parsed
    /\ parser.cl_counter = 3 /\ parser.surf_counter = 3
    /\ parser.pt_counter = 6 /\ parser.line_counter = 6


\* The elements ended so far: the ENDEL lines read.
ElementsEnded == {i \in 1..(parser.pos - 1) : parser.file[i].t = "ENDEL"}

\* All the identifiers recorded under the layers, layer after layer.
Recorded == Flatten([i \in 1..Len(parser.layers) |-> parser.layers[i].v])

\* The layer of the most recent LAYER line read: its third character from the
\* end.
RecentLayer ==
    LayerChar(parser.file[SetMax({i \in 1..(parser.pos - 1) : parser.file[i].t = "LAYER"})])

\* C32: every element yields one Curve Loop and one Plane Surface, of that
\* loop only, and one identifier is recorded for it, under the layer of the
\* most recent LAYER record; the identifier recorded is the identifier of the
\* element's Plane Surface too (the loops' and the surfaces' counters are equal
\* at every element), so that the lists per layer name surfaces that exist, and
\* the identifiers recorded are as many as the elements.
C32_OneLoopOneSurfacePerElement ==
    parser.exc = NoExc =>
        LET n == Cardinality(ElementsEnded)
        IN  /\ parser.cl_counter = parser.surf_counter
            /\ Len(StmtsOf("Curve Loop")) = n
            /\ Len(StmtsOf("Plane Surface")) = n
            /\ \A j \in Emitted("Plane Surface") :
                  /\ parser.out[j - 1].k = "Curve Loop"
                  /\ parser.out[j].loop = parser.out[j - 1].id
                  /\ parser.out[j].id = parser.out[j - 1].id
            /\ Len(Recorded) = n
            /\ Range(Recorded) = {s.id : s \in Range(StmtsOf("Plane Surface"))}
            /\ ElementEnded =>
                  /\ DictHas(parser.layers, RecentLayer)
                  /\ LET ids == DictGet(parser.layers, RecentLayer)
                     IN  ids # <<>> /\ ids[Len(ids)] = parser.surf_counter - 1

\* A second element was ended under another layer than the first.
C32_Witness ==
    /\ ElementEnded
    /\ Cardinality(ElementsEnded) = 2
    /\ Len(parser.layers) = 2
    /\ \A i \in 1..2 : Len(parser.layers[i].v) = 1


\* The coordinate records of a file, in order.
CoordsOf(file) ==
    LET recs == SelectSeq(file, LAMBDA r : r.t \in {"XY", "PT"})
    IN  [i \in 1..Len(recs) |-> recs[i].pt]

\* A mask with the units (1000000.0, 1.0), one layer of identifier 1 and one
\* element of four corners, the first corner written again at the end or not.
SquareMask(file) ==
    /\ Cardinality(UnitsIn(file)) = 1
    /\ \A i \in UnitsIn(file) : file[i].mum = 6 /\ file[i].m = 0
    /\ Len(SelectSeq(file, LAMBDA r : r.t = "XY")) = 1
    /\ Len(SelectSeq(file, LAMBDA r : r.t = "ENDEL")) = 1
    /\ LET ls == SelectSeq(file, LAMBDA r : r.t = "LAYER")
       IN  Len(ls) = 1 /\ ls[1].id = <<"1">> /\ ls[1].tail = <<";">>
    /\ LET c == CoordsOf(file)
       IN  /\ Len(c) \in {4, 5}
           /\ \A i, j \in 1..4 : i # j => <<c[i].x, c[i].y>> # <<c[j].x, c[j].y>>
           /\ Len(c) = 5 => c[5] = c[1]

\* C33: a mask with the consistent units (1000000.0, 1.0), one layer of
\* identifier 1 and one element of four corner points is compiled to 4 Point,
\* 4 Line, 1 Curve Loop and 1 Plane Surface statements and no fragment
\* statement.
C33_SquareMaskStatements ==
    (Parsed /\ SquareMask(parser.file)) =>
        /\ Len(StmtsOf("Point")) = 4
        /\ Len(StmtsOf("Line")) = 4
        /\ Len(StmtsOf("Curve Loop")) = 1
        /\ Len(StmtsOf("Plane Surface")) = 1
        /\ Fragments = <<>>

\* The mask of four coordinate records was parsed.
C33_Witness ==
    /\ Parsed
    /\ SquareMask(parser.file)
    /\ Len(CoordsOf(parser.file)) = 4
    /\ parser.layers = <<[k |-> "1", v |-> <<1>>]>>

\* The number d = [mant, exp] is a / den * 10^(m + 6) rounded to 6 decimals:
\* a multiple of 10^-6, the nearest one, the even one of two as near. The meter
\* unit is 10^m.
Rounded6(d, a, m) ==
    IF m + 12 >= 0
    THEN \* a * 10^(m + 6) has no more than 6 decimals
         IF a = 0 THEN d.mant = 0
         ELSE d.mant # 0 /\ d.exp >= -6
              /\ LET e == SetMin({d.exp, m + 6})
                 IN  d.mant * Pow10(d.exp - e) = a * Pow10(m + 6 - e)
    ELSE LET den == Pow10(-(m + 12))
             n == IF d.mant = 0 THEN 0 ELSE d.mant * Pow10(d.exp + 6)
             diff == IF n * den >= a THEN n * den - a ELSE a - n * den
         IN  /\ d.mant # 0 => d.exp >= -6
             /\ 2 * diff <= den
             /\ 2 * diff = den => n % 2 = 0

\* The meter unit of the file's UNITS record.
MeterUnit == parser.file[SetMin(UnitsIn(parser.file))].m

\* C34: with the meter unit u of the UNITS record, a coordinate (a, b) of the
\* mask is emitted as the point (round(a*u*1e6, 6), round(b*u*1e6, 6)) with
\* z = 0 and the mesh density h the parser was constructed with.
C34_PointScaledAndRounded ==
    ElementEnded =>
        /\ Len(EndedPoints) = Len(KeptCoords)
        /\ \A i \in 1..Len(KeptCoords) :
              /\ Rounded6(EndedPoints[i].x, KeptCoords[i].x, MeterUnit)
              /\ Rounded6(EndedPoints[i].y, KeptCoords[i].y, MeterUnit)
              /\ EndedPoints[i].z = 0
              /\ EndedPoints[i].h = parser.h
        /\ parser.h \in MeshDensities

\* With the meter unit 1e-13 the coordinate 7 was rounded up to 1e-06 and the
\* coordinate 0 written as 0, with the mesh density 2.
C34_Witness ==
    /\ ElementEnded
    /\ MeterUnit = -13
    /\ parser.h = 2
    /\ \E i \in 1..Len(KeptCoords) :
          /\ KeptCoords[i].x = 7 /\ KeptCoords[i].y = 0
          /\ EndedPoints[i].x = [mant |-> 1, exp |-> -6]
          /\ EndedPoints[i].y = [mant |-> 0, exp |-> 0]


\* --------------------------------------------------- first_layer (C35)
\* The mask surfaces each generic name surfN is bound to.
GenericBound ==
    {b \in GenericNames(NCells + 2) \X {top_surface[i][2] : i \in 1..Len(top_surface)} :
        \E g \in GroupsOf(Cur, 2) : g.name = b[1] /\ b[2] \in Range(g.ents)}

\* A step of the device seen by first_layer.
FirstLayerStep ==
    /\ first_layer' => first_layer
    /\ (first_layer /\ ~first_layer') => last'.op = "new_layer"
    /\ last'.op = "new_layer" => ~first_layer'
    /\ (~first_layer /\ last'.op \in {"setup_top_layer", "new_dot_rectangle"}) =>
          /\ exc' = "ValueError"
          /\ phys' = phys
          /\ s_counter' = s_counter
    /\ ~first_layer => GenericBound' \subseteq GenericBound

\* C35: first_layer is True from construction until the first new_layer call,
\* which sets it to False, and no call sets it back to True; after the first
\* new_layer every setup_top_layer and every new_dot_rectangle call fails, and
\* no generic name surfN is given to a mask surface that did not have it.
C35_FirstLayerMonotone ==
    /\ [][FirstLayerStep]_vars
    /\ [](calls["layer"] = 0 => first_layer)

\* After a layer, setup_top_layer and then new_dot_rectangle were called and
\* failed, the mask surfaces still under their generic names.
C35_Witness ==
    /\ ~first_layer
    /\ last.op = "new_dot_rectangle" /\ ~pre.first_layer
    /\ exc # NoExc
    /\ calls["setup"] >= 1
    /\ Cardinality(GenericBound) >= 2


\* ------------------------------------------- lineages and bottom (C36)
\* The most recent frame of the lineage of every name in vol_entities.
LastFrames == {vol_entities[i].v[Len(vol_entities[i].v)] : i \in 1..Len(vol_entities)}

\* C36: in every state a call returned in, the most recent surface frame of
\* every name in vol_entities is within bottom_surface, so that new_layer finds
\* every surface of every registered name among the surfaces it extrudes and
\* never fails on the lookup.
C36_LineagesOnBottom ==
    /\ exc = NoExc => \A f \in LastFrames : Range(f) \subseteq Range(bottom_surface)
    /\ last.op = "new_layer" => exc # "ValueError"


\* ------------------------------------------------ dot registries (C37)
\* C37: in every state a call returned in, dot_tag and dot_volume have the
\* same number of entries, one surface lineage and one volume lineage per
\* tracked dot, and a new_layer with dot_region finds a volume lineage for
\* every dot of dot_tag.
C37_DotRegistriesAligned ==
    /\ exc = NoExc => Len(dot_tag) = Len(dot_volume)
    /\ (last.op = "new_layer" /\ last.dot_region) => exc # "IndexError"


\* ------------------------------------------- groups of an entity (C38)
\* C38: no entity is in two physical groups of one dimension at once: no
\* surface in two groups of surfaces, no volume in two groups of volumes.
C38_OneGroupPerEntity ==
    \A i, j \in 1..Len(phys) :
        (i # j /\ phys[i].dim = phys[j].dim) =>
            Range(phys[i].ents) \cap Range(phys[j].ents) = {}


\* ------------------------------------------- new_layer's frame (C39)
\* The sequence a begins the sequence b.
IsPrefix(a, b) == Len(a) <= Len(b) /\ SubSeq(b, 1, Len(a)) = a

\* C39: new_layer only appends to the lineages: for every name of vol_entities
\* and for every dot, the frames there before the call are the beginning of the
\* lineage after it, unchanged; and the call leaves top_surface, bnd_dict,
\* vol_entities_top and the keys of vol_entities as they were.
C39_LayerOnlyAppends ==
    last.op = "new_layer" =>
        /\ DictKeys(vol_entities) = DictKeys(pre.vol_entities)
        /\ \A i \in 1..Len(vol_entities) :
              IsPrefix(pre.vol_entities[i].v, vol_entities[i].v)
        /\ Len(dot_tag) = Len(pre.dot_tag)
        /\ \A j \in 1..Len(dot_tag) : IsPrefix(pre.dot_tag[j], dot_tag[j])
        /\ Len(dot_volume) = Len(pre.dot_volume)
        /\ \A j \in 1..Len(dot_volume) : IsPrefix(pre.dot_volume[j], dot_volume[j])
        /\ top_surface = pre.top_surface
        /\ bnd_dict = pre.bnd_dict
        /\ vol_entities_top = pre.vol_entities_top

\* A second layer was added under a dot and a relabelled surface with a
\* boundary condition, and the lineages grew.
C39_Witness ==
    /\ last.op = "new_layer" /\ exc = NoExc
    /\ last.dot_region
    /\ bnd_dict # <<>>
    /\ vol_entities_top # <<>>
    /\ \E i \in 1..Len(vol_entities) :
          Len(pre.vol_entities[i].v) = 3 /\ Len(vol_entities[i].v) = 5
    /\ \E j \in 1..Len(dot_volume) :
          pre.dot_volume[j] # <<>> /\ Len(dot_volume[j]) = Len(pre.dot_volume[j]) + 1
    /\ \E j \in 1..Len(dot_tag) : Len(dot_tag[j]) = Len(pre.dot_tag[j]) + 1


\* ------------------------------------------- new_layer failing (C40)
\* C40: a new_layer call that fails part-way changes nothing: first_layer,
\* bottom_surface, vol_entities, dot_tag, dot_volume, layer_counter and
\* material_dict are after the call what they were before it.
C40_FailedLayerChangesNothing ==
    (last.op = "new_layer" /\ exc # NoExc) =>
        /\ first_layer = pre.first_layer
        /\ bottom_surface = pre.bottom_surface
        /\ vol_entities = pre.vol_entities
        /\ dot_tag = pre.dot_tag
        /\ dot_volume = pre.dot_volume
        /\ layer_counter = pre.layer_counter
        /\ material_dict = pre.material_dict

=============================================================================
